---- MODULE Spec2Model ----
(***************************************************************************)
(* Booking orchestration engine of salon_bot_with_booking.py.              *)
(*                                                                         *)
(* A replica of the server handles one WhatsApp turn at a time             *)
(* (get_ai_response is synchronous), several replicas share the            *)
(* salon_appointments table and the external calendar.  A replica's turn   *)
(* is split at every statement that touches shared state: each SQL         *)
(* statement (READ COMMITTED, one connection per call), each calendar      *)
(* call and each model call is one step.  A deployment starts one replica *)
(* or two; the runs of a single replica are followed one tool call         *)
(* further than those of two (MaxDeepCalls, MaxCalls), and RaceSpec        *)
(* follows the runs of two replicas as far as well.                        *)
(*                                                                         *)
(* Dates are <<year, month, day>>, times are <<hour, minute>>; a tuple     *)
(* that strptime rejects models a malformed string.  <<>> models None for  *)
(* an optional date or time, "" for an optional string, 0 for a NULL       *)
(* google_event_id.  Phone numbers are sequences of characters.            *)
(***************************************************************************)
EXTENDS Integers, Sequences, FiniteSets, TLC

\* ------------------------------------------------------------------ bounds

\* rows the table may hold in a run
MaxAppts == 2
\* turns (inbound messages) handled in a run, over all replicas
MaxTurns == 2
\* tool calls the model may emit in one response
MaxToolCalls == 2
\* tool calls dispatched in a run, over all turns, while two replicas serve
MaxCalls == 2
\* tool calls dispatched in the longer runs: those of one replica alone, and those of
\* RaceSpec
MaxDeepCalls == 3

\* turns per behaviour in which no tool is ever called
MaxChatTurns == 6

\* the replicas sharing the database and the calendar
Procs == {1, 2}

\* ------------------------------------------------------------------ inputs

\* sender identities delivered by the transport
PhoneInputs == { <<"0", "1">>, <<"+", "2">> }

\* customer_name arguments the model may supply
NameInputs == { "Marco", " " }

\* service codes the model may supply ("" is an omitted new_service): a catalog code
\* in upper case, which create_appointment accepts and stores as given, and a code
\* outside the catalog
ServiceInputs == { "PIEGA", "bogus" }

\* 2025-12-30 is a Tuesday, 2025-12-29 a Monday, 2025-13-01 is malformed,
\* 2026-01-01 is a Thursday and a holiday
DateInputs == { <<2025, 12, 30>>, <<2025, 12, 29>>, <<2025, 13, 1>>, <<2026, 1, 1>> }

TimeInputs == { <<10, 0>>, <<11, 0>> }

\* the instants datetime.now() passes through
Instants ==
    << [date |-> <<2025, 12, 29>>, time |-> <<9, 0>>],
       [date |-> <<2025, 12, 30>>, time |-> <<10, 30>>] >>

\* ------------------------------------------------------------------ catalog

SALON_SERVICES ==
    [ taglio_donna |-> [name_it |-> "Taglio Donna", name_en |-> "Women's Haircut", price |-> 60, duration |-> 45],
      taglio_uomo |-> [name_it |-> "Taglio Uomo", name_en |-> "Men's Haircut", price |-> 40, duration |-> 45],
      piega |-> [name_it |-> "Piega", name_en |-> "Styling/Blow-dry", price |-> 30, duration |-> 30],
      colore_base |-> [name_it |-> "Colore Base", name_en |-> "Basic Color", price |-> 70, duration |-> 90],
      balayage |-> [name_it |-> "Balayage/Schiariture", name_en |-> "Balayage/Highlights", price |-> 130, duration |-> 150],
      trattamento_ristrutturante |-> [name_it |-> "Trattamento Ristrutturante", name_en |-> "Restructuring Treatment", price |-> 45, duration |-> 45],
      trattamento_cute |-> [name_it |-> "Trattamento Cute", name_en |-> "Scalp Treatment", price |-> 40, duration |-> 30] ]

\* str.lower() on the service codes that occur
Lower(s) ==
    IF s = "PIEGA" THEN "piega"
    ELSE IF s = "TAGLIO_DONNA" THEN "taglio_donna"
    ELSE s

\* str.strip() on the names that occur
Strip(s) == IF s = " " THEN "" ELSE s

\* SALON_SERVICES.get(final_service, {"duration": 45, "price": 35, "name_it": final_service})
DefaultService(s) == [name_it |-> s, name_en |-> s, price |-> 35, duration |-> 45]

\* ------------------------------------------------------------------ phones

Digits == { "0", "1", "2", "3", "4", "5", "6", "7", "8", "9" }

IsDigit(c) == c \in Digits

RECURSIVE LStripZeros(_)
LStripZeros(s) ==
    IF s # <<>> /\ Head(s) = "0" THEN LStripZeros(Tail(s)) ELSE s

\* a normalization that keeps the leading zeros
normalize_digits_only(phone) ==
    IF phone = <<>> THEN phone ELSE SelectSeq(phone, IsDigit)

\* a normalization that removes one leading zero only
normalize_one_zero(phone) ==
    IF phone = <<>> THEN phone
    ELSE LET digits == SelectSeq(phone, IsDigit)
         IN  IF Len(digits) > 1 /\ Head(digits) = "0" THEN Tail(digits) ELSE digits

\* a repository that keys its rows on the phone string as the transport delivers it
phone_as_given(phone) == phone

normalize_phone(phone) ==
    IF phone = <<>> THEN phone
    ELSE LET digits == SelectSeq(phone, IsDigit)
             stripped == LStripZeros(digits)
         IN  IF stripped # <<>> THEN stripped ELSE digits

\* ------------------------------------------------------------------ dates

IsLeap(y) == (y % 4 = 0 /\ y % 100 # 0) \/ y % 400 = 0

DaysInMonth(y, m) ==
    IF m = 2 THEN (IF IsLeap(y) THEN 29 ELSE 28)
    ELSE IF m \in {4, 6, 9, 11} THEN 30 ELSE 31

\* datetime.strptime(date_str, "%Y-%m-%d") does not raise
ValidDate(d) ==
    /\ Len(d) = 3
    /\ d[1] \in 1..9999
    /\ d[2] \in 1..12
    /\ d[3] \in 1..DaysInMonth(d[1], d[2])

\* datetime.strptime(time_str, "%H:%M") does not raise
ValidTime(t) ==
    /\ Len(t) = 2
    /\ t[1] \in 0..23
    /\ t[2] \in 0..59

\* datetime.weekday(): Monday = 0 ... Sunday = 6
Weekday(d) ==
    LET m == IF d[2] < 3 THEN d[2] + 12 ELSE d[2]
        y == IF d[2] < 3 THEN d[1] - 1 ELSE d[1]
        K == y % 100
        J == y \div 100
        h == (d[3] + ((13 * (m + 1)) \div 5) + K + (K \div 4) + (J \div 4) + 5 * J) % 7
    IN  (h + 5) % 7

DateLess(a, b) ==
    \/ a[1] < b[1]
    \/ a[1] = b[1] /\ a[2] < b[2]
    \/ a[1] = b[1] /\ a[2] = b[2] /\ a[3] < b[3]

TimeLess(a, b) ==
    \/ a[1] < b[1]
    \/ a[1] = b[1] /\ a[2] < b[2]

\* datetime(date, time) < datetime.now(), seconds of now() ignored
DateTimeLess(d, t, nw) ==
    \/ DateLess(d, nw.date)
    \/ d = nw.date /\ TimeLess(t, nw.time)

\* a validator that consults the weekday before the holiday table
validate_weekday_first(date_str, time_str) ==
    IF ~ValidDate(date_str)
    THEN [valid |-> FALSE, error_code |-> "INVALID_DATE_FORMAT"]
    ELSE IF Weekday(date_str) = 0
    THEN [valid |-> FALSE, error_code |-> "CLOSED_MONDAY"]
    ELSE IF Weekday(date_str) = 6
    THEN [valid |-> FALSE, error_code |-> "CLOSED_SUNDAY"]
    ELSE IF date_str[2] = 12 /\ date_str[3] = 25
    THEN [valid |-> FALSE, error_code |-> "CLOSED_HOLIDAY_CHRISTMAS"]
    ELSE IF date_str[2] = 1 /\ date_str[3] = 1
    THEN [valid |-> FALSE, error_code |-> "CLOSED_HOLIDAY_NEWYEAR"]
    ELSE [valid |-> TRUE, error_code |-> ""]

\* a validator that consults the weekday only, with no holiday table
validate_weekday_only(date_str, time_str) ==
    IF ~ValidDate(date_str)
    THEN [valid |-> FALSE, error_code |-> "INVALID_DATE_FORMAT"]
    ELSE IF Weekday(date_str) = 0
    THEN [valid |-> FALSE, error_code |-> "CLOSED_MONDAY"]
    ELSE IF Weekday(date_str) = 6
    THEN [valid |-> FALSE, error_code |-> "CLOSED_SUNDAY"]
    ELSE [valid |-> TRUE, error_code |-> ""]

validate_business_day_and_time(date_str, time_str) ==
    IF ~ValidDate(date_str)
    THEN [valid |-> FALSE, error_code |-> "INVALID_DATE_FORMAT"]
    ELSE IF date_str[2] = 12 /\ date_str[3] = 25
    THEN [valid |-> FALSE, error_code |-> "CLOSED_HOLIDAY_CHRISTMAS"]
    ELSE IF date_str[2] = 1 /\ date_str[3] = 1
    THEN [valid |-> FALSE, error_code |-> "CLOSED_HOLIDAY_NEWYEAR"]
    ELSE IF Weekday(date_str) = 0
    THEN [valid |-> FALSE, error_code |-> "CLOSED_MONDAY"]
    ELSE IF Weekday(date_str) = 6
    THEN [valid |-> FALSE, error_code |-> "CLOSED_SUNDAY"]
    ELSE [valid |-> TRUE, error_code |-> ""]

\* ------------------------------------------------------------------ state

VARIABLES
    appts,          \* salon_appointments: sequence of rows, id = index (SERIAL)
    calendar,       \* the external calendar: the mirrored events, by id and start
    calSeq,         \* event ids the calendar has handed out
    now,            \* index into Instants: the wall clock
    pc,             \* per replica: position inside get_ai_response
    turn,           \* per replica: locals of get_ai_response
    frame,          \* per replica: locals of the booking function being executed
    result,         \* per replica: function_result of the latest execute_function
    reply,          \* per replica: value returned by the latest get_ai_response
    history,        \* per replica: conversation_history (process-local dict)
    turnsStarted,   \* number of turns begun so far
    callsStarted    \* number of tool calls the model has emitted so far

vars == << appts, calendar, calSeq, now, pc, turn, frame, result, reply, history,
           turnsStarted, callsStarted >>

\* ------------------------------------------------------------------ locals

NoTurn ==
    [phone |-> <<>>, modelCalls |-> 0, tools |-> FALSE, rounds |-> 0, pending |-> 0,
     nextId |-> 1, msgs |-> <<>>, context |-> <<>>, calls |-> <<>>]

NoFrame ==
    [fn |-> "", id |-> 0, phone |-> <<>>, name |-> "", service_type |-> "",
     date |-> <<>>, time |-> <<>>, geid |-> 0,
     changes |-> [date |-> <<>>, time |-> <<>>, service |-> <<>>],
     calIssued |-> FALSE, committed |-> FALSE]

NoResult == [none |-> TRUE]

FALLBACK_REPLY == "Technical issue / Problema tecnico"

\* the clock reading of datetime.now()
Now == Instants[now]

\* the replicas a deployment may start: both of them, or the first one only
Started == { Procs, { 1 } }

\* the position of every replica once those of `started` are up
Positions(started) == [p \in Procs |-> IF p \in started THEN "idle" ELSE "stopped"]

Init ==
    /\ appts = <<>>
    /\ calendar = {}
    /\ calSeq = 0
    /\ now = 1
    /\ pc \in { Positions(started) : started \in Started }
    /\ turn = [p \in Procs |-> NoTurn]
    /\ frame = [p \in Procs |-> NoFrame]
    /\ result = [p \in Procs |-> NoResult]
    /\ reply = [p \in Procs |-> ""]
    /\ history = [p \in Procs |-> [ph \in PhoneInputs |-> <<>>]]
    /\ turnsStarted = 0
    /\ callsStarted = 0

\* ------------------------------------------------------------------ controller

\* replica p handles the last turn of the behaviour, no tool has been called yet and
\* every other replica is idle: the turns in which a model response may carry several
\* tool calls
Alone(p) ==
    /\ turnsStarted >= MaxTurns
    /\ callsStarted = 0
    /\ \A q \in Procs \ { p } : pc[q] \in { "idle", "stopped" }

\* the ids of the n tool calls of one model response, in the order emitted
ToolCallIds(first, n) == [i \in 1..n |-> first + i - 1]

\* a loop over the tool calls that runs from the last one to the first
CallFromTheEnd(calls, pending) == calls[pending]

\* for tool_call in tool_calls: the call the loop has reached
CurrentCall(calls, pending) == calls[Len(calls) - pending + 1]

\* the number of history entries copied into the messages of a turn
HistoryWindow == 10

\* conversation_history[phone][-10:]
Window(h) ==
    IF Len(h) <= HistoryWindow THEN h
    ELSE SubSeq(h, Len(h) - HistoryWindow + 1, Len(h))

\* get_ai_response entered: history entry created, messages built
StartTurnFrom(p, phones) ==
    /\ pc[p] = "idle"
    /\ turnsStarted < (IF callsStarted = 0 THEN MaxChatTurns ELSE MaxTurns)
    /\ \E phone \in phones :
         turn' = [turn EXCEPT ![p] = [NoTurn EXCEPT !.phone = phone,
                                                    !.context = Window(history[p][phone])]]
    /\ pc' = [pc EXCEPT ![p] = "model"]
    /\ turnsStarted' = turnsStarted + 1
    /\ UNCHANGED << appts, calendar, calSeq, now, frame, result, reply, history, callsStarted >>

StartTurn(p) == StartTurnFrom(p, PhoneInputs)

\* a save that keeps the tool messages of the turn in the history as well
SaveWithToolTraffic(p, text) ==
    /\ history' = [history EXCEPT ![p][turn[p].phone] =
                     @ \o << [role |-> "user", content |-> "message"] >>
                       \o [k \in 1..Len(turn[p].msgs) |->
                             [role |-> "tool", content |-> "result"]]
                       \o << [role |-> "assistant", content |-> text] >>]
    /\ reply' = [reply EXCEPT ![p] = text]
    /\ pc' = [pc EXCEPT ![p] = "send"]

\* a save that is followed by another chat-completion call instead of the return
SaveAndCallAgain(p, text) ==
    /\ history' = [history EXCEPT ![p][turn[p].phone] =
                     @ \o << [role |-> "user", content |-> "message"],
                             [role |-> "assistant", content |-> text] >>]
    /\ reply' = [reply EXCEPT ![p] = text]
    /\ pc' = [pc EXCEPT ![p] = "model"]

\* "Save to history" followed by return
SaveAndReturn(p, text) ==
    /\ history' = [history EXCEPT ![p][turn[p].phone] =
                     @ \o << [role |-> "user", content |-> "message"],
                             [role |-> "assistant", content |-> text] >>]
    /\ reply' = [reply EXCEPT ![p] = text]
    /\ pc' = [pc EXCEPT ![p] = "send"]

\* a controller that still offers tools on its last model call
ToolsOnEveryCall(k) == k <= 4

\* tools are offered on the first three model calls only
ToolsEnabled(k) == k <= 3

\* the tool calls a run may dispatch: a replica that serves alone is followed further
CallBound == IF \E q \in Procs : pc[q] = "stopped" THEN MaxDeepCalls ELSE MaxCalls

\* one chat-completion call: the response is plain text or a list of tool calls, as
\* long as the run has dispatched fewer than `bound` of them
ModelCallWithin(p, bound) ==
    /\ pc[p] = "model"
    /\ LET k == turn[p].modelCalls + 1 IN
       \/ /\ SaveAndReturn(p, "reply")
          /\ turn' = [turn EXCEPT ![p].modelCalls = k, ![p].tools = ToolsEnabled(k),
                                  ![p].calls = <<>>]
          /\ UNCHANGED callsStarted
       \/ /\ ToolsEnabled(k)
          /\ turnsStarted <= MaxTurns
          /\ \E n \in 1..MaxToolCalls :
               /\ callsStarted + n <= bound
               /\ n > 1 => Alone(p)
               /\ callsStarted' = callsStarted + n
               /\ turn' = [turn EXCEPT ![p].modelCalls = k, ![p].tools = TRUE,
                                       ![p].rounds = @ + 1, ![p].pending = n,
                                       ![p].calls = ToolCallIds(turn[p].nextId, n)]
          /\ pc' = [pc EXCEPT ![p] = "dispatch"]
          /\ UNCHANGED << reply, history >>
    /\ result' = [result EXCEPT ![p] = NoResult]
    /\ frame' = [frame EXCEPT ![p] = NoFrame]
    /\ UNCHANGED << appts, calendar, calSeq, now, turnsStarted >>

ModelCall(p) == ModelCallWithin(p, CallBound)

\* a chat-completion call raises: the except branch returns the apology
ModelError(p) ==
    /\ pc[p] = "model"
    /\ reply' = [reply EXCEPT ![p] = FALLBACK_REPLY]
    /\ pc' = [pc EXCEPT ![p] = "send"]
    /\ turn' = [turn EXCEPT ![p].modelCalls = @ + 1,
                            ![p].tools = ToolsEnabled(turn[p].modelCalls + 1),
                            ![p].calls = <<>>]
    /\ result' = [result EXCEPT ![p] = NoResult]
    /\ frame' = [frame EXCEPT ![p] = NoFrame]
    /\ UNCHANGED << appts, calendar, calSeq, now, history, turnsStarted, callsStarted >>

\* process_message: send_whatsapp_message(phone, response), the handler is done
SendReply(p) ==
    /\ pc[p] = "send"
    /\ pc' = [pc EXCEPT ![p] = "idle"]
    /\ turn' = [turn EXCEPT ![p] = NoTurn]
    /\ reply' = [reply EXCEPT ![p] = ""]
    /\ UNCHANGED << appts, calendar, calSeq, now, frame, result, history, turnsStarted, callsStarted >>

\* what outlives the call of a booking function whose locals were f: which function
\* it was and on which appointment
Retained(f) == [NoFrame EXCEPT !.fn = f.fn, !.id = f.id]

\* the frame of a call that returns before it reads a row
Call(function_name, appointment_id) ==
    [NoFrame EXCEPT !.fn = function_name, !.id = appointment_id]

\* execute_function returned res from the call whose locals were f: the tool message
\* is appended to messages
Finished(p, res, f) ==
    /\ result' = [result EXCEPT ![p] = res]
    /\ turn' = [turn EXCEPT ![p].msgs = Append(@, [role |-> "tool",
                                                    tool_call_id |->
                                                        CurrentCall(turn[p].calls,
                                                                    turn[p].pending)]),
                            ![p].nextId = @ + 1,
                            ![p].pending = @ - 1]
    /\ pc' = [pc EXCEPT ![p] = IF turn[p].pending = 1 THEN "model" ELSE "dispatch"]
    /\ frame' = [frame EXCEPT ![p] = Retained(f)]

\* the booking function begun earlier returns res
Returned(p, res) == Finished(p, res, frame[p])

\* a dispatcher that trusts the customer_phone among the model's arguments
PhoneFromArguments(transport_phone, args_phone) == args_phone

\* the phone execute_function hands to the booking functions: its own parameter,
\* whatever customer_phone the model put into the arguments
CallerPhone(transport_phone, args_phone) == transport_phone

\* datetime.now() moves on
Tick ==
    /\ now < Len(Instants)
    /\ now' = now + 1
    /\ UNCHANGED << appts, calendar, calSeq, pc, turn, frame, result, reply, history, turnsStarted, callsStarted >>

\* ------------------------------------------------------------------ storage

\* appointment_id arguments the model may supply: every row id and one that is absent
IdInputs == 1..(MaxAppts + 1)

\* the keys CREATE TABLE salon_appointments declares unique: id SERIAL PRIMARY KEY
UniqueKeys == { <<"id">> }

\* writing row r at position pos of the table raises UniqueViolation
ViolatesUnique(r, pos) ==
    \E key \in UniqueKeys :
        \E i \in DOMAIN appts :
            /\ i # pos
            /\ \A c \in 1..Len(key) : appts[i][key[c]] = r[key[c]]

\* a slot count that leaves out the status condition: cancelled rows hold their slot
SlotCountOfAnyStatus(d, t) ==
    Cardinality({ i \in DOMAIN appts :
        /\ appts[i].appointment_date = d
        /\ appts[i].appointment_time = t })

\* SELECT COUNT(*) ... WHERE appointment_date = d AND appointment_time = t AND status = 'confirmed'
SlotCount(d, t) ==
    Cardinality({ i \in DOMAIN appts :
        /\ appts[i].appointment_date = d
        /\ appts[i].appointment_time = t
        /\ appts[i].status = "confirmed" })

\* the slot check with its id test inverted: it counts the row being modified only
SlotCountOfSelf(d, t, id) ==
    Cardinality({ i \in DOMAIN appts :
        /\ appts[i].appointment_date = d
        /\ appts[i].appointment_time = t
        /\ appts[i].status = "confirmed"
        /\ appts[i].id = id })

\* ... AND id != appointment_id
SlotCountExcluding(d, t, id) ==
    Cardinality({ i \in DOMAIN appts :
        /\ appts[i].appointment_date = d
        /\ appts[i].appointment_time = t
        /\ appts[i].status = "confirmed"
        /\ appts[i].id # id })

\* the lookup without its customer_phone condition
ConfirmedOfAnyPhone(id, phone) ==
    /\ id \in DOMAIN appts
    /\ appts[id].status = "confirmed"

\* the lookup without its status condition
OwnedOfAnyStatus(id, phone) ==
    /\ id \in DOMAIN appts
    /\ appts[id].customer_phone = phone

\* SELECT ... WHERE id = %s AND customer_phone = %s AND status = 'confirmed' returns a row
OwnedConfirmed(id, phone) ==
    /\ id \in DOMAIN appts
    /\ appts[id].customer_phone = phone
    /\ appts[id].status = "confirmed"

\* creates begun whose INSERT is still to come
CreatesInFlight == Cardinality({ q \in Procs : pc[q] \in {"create_cal", "create_insert"} })

\* ------------------------------------------------------------------ create_appointment

\* a create_appointment without the SELECT COUNT of the slot
CreateCheckWithoutSlotCheck(phone, customer_name, service_type, date, time) ==
    IF Strip(customer_name) = ""
    THEN [success |-> FALSE, error |-> "CUSTOMER_NAME_REQUIRED"]
    ELSE IF Lower(service_type) \notin DOMAIN SALON_SERVICES
    THEN [success |-> FALSE, error |-> "INVALID_SERVICE", provided |-> service_type]
    ELSE IF ~(ValidDate(date) /\ ValidTime(time))
    THEN [success |-> FALSE, error |-> "INVALID_DATE_TIME_FORMAT",
          provided_date |-> date, provided_time |-> time]
    ELSE IF DateTimeLess(date, time, Now)
    THEN [success |-> FALSE, error |-> "PAST_DATE_NOT_ALLOWED"]
    ELSE IF ~validate_business_day_and_time(date, time).valid
    THEN [success |-> FALSE, error |-> validate_business_day_and_time(date, time).error_code,
          date |-> date, time |-> time]
    ELSE [success |-> TRUE]

\* a create_appointment without the call of validate_business_day_and_time
CreateCheckUnvalidated(phone, customer_name, service_type, date, time) ==
    IF Strip(customer_name) = ""
    THEN [success |-> FALSE, error |-> "CUSTOMER_NAME_REQUIRED"]
    ELSE IF Lower(service_type) \notin DOMAIN SALON_SERVICES
    THEN [success |-> FALSE, error |-> "INVALID_SERVICE", provided |-> service_type]
    ELSE IF ~(ValidDate(date) /\ ValidTime(time))
    THEN [success |-> FALSE, error |-> "INVALID_DATE_TIME_FORMAT",
          provided_date |-> date, provided_time |-> time]
    ELSE IF DateTimeLess(date, time, Now)
    THEN [success |-> FALSE, error |-> "PAST_DATE_NOT_ALLOWED"]
    ELSE IF SlotCount(date, time) > 0
    THEN [success |-> FALSE, error |-> "SLOT_ALREADY_BOOKED", date |-> date, time |-> time]
    ELSE [success |-> TRUE]

\* validation and the availability pre-check of create_appointment
CreateCheck(phone, customer_name, service_type, date, time) ==
    IF Strip(customer_name) = ""
    THEN [success |-> FALSE, error |-> "CUSTOMER_NAME_REQUIRED"]
    ELSE IF Lower(service_type) \notin DOMAIN SALON_SERVICES
    THEN [success |-> FALSE, error |-> "INVALID_SERVICE", provided |-> service_type]
    ELSE IF ~(ValidDate(date) /\ ValidTime(time))
    THEN [success |-> FALSE, error |-> "INVALID_DATE_TIME_FORMAT",
          provided_date |-> date, provided_time |-> time]
    ELSE IF DateTimeLess(date, time, Now)
    THEN [success |-> FALSE, error |-> "PAST_DATE_NOT_ALLOWED"]
    ELSE IF ~validate_business_day_and_time(date, time).valid
    THEN [success |-> FALSE, error |-> validate_business_day_and_time(date, time).error_code,
          date |-> date, time |-> time]
    ELSE IF SlotCount(date, time) > 0
    THEN [success |-> FALSE, error |-> "SLOT_ALREADY_BOOKED", date |-> date, time |-> time]
    ELSE [success |-> TRUE]

\* execute_function("create_appointment"): up to and including the SELECT COUNT
DispatchCreate(p) ==
    /\ pc[p] = "dispatch"
    /\ Len(appts) + CreatesInFlight < MaxAppts
    /\ \E customer_name \in NameInputs, service_type \in ServiceInputs,
          date \in DateInputs, time \in TimeInputs, args_phone \in PhoneInputs :
         LET phone == normalize_phone(CallerPhone(turn[p].phone, args_phone))
             chk == CreateCheck(phone, customer_name, service_type, date, time)
         IN  IF chk.success
             THEN /\ frame' = [frame EXCEPT ![p] =
                         [NoFrame EXCEPT !.fn = "create_appointment", !.phone = phone,
                                         !.name = Strip(customer_name),
                                         !.service_type = service_type,
                                         !.date = date, !.time = time]]
                  /\ pc' = [pc EXCEPT ![p] = "create_cal"]
                  /\ UNCHANGED << turn, result >>
             ELSE Finished(p, chk, Call("create_appointment", 0))
    /\ UNCHANGED << appts, calendar, calSeq, now, reply, history, turnsStarted, callsStarted >>

\* create_calendar_event: returns the new event's id, or None when the call fails
CreateCalendar(p) ==
    /\ pc[p] = "create_cal"
    /\ \/ /\ calSeq' = calSeq + 1
          /\ calendar' = calendar \cup
                { [id |-> calSeq + 1, date |-> frame[p].date, time |-> frame[p].time] }
          /\ frame' = [frame EXCEPT ![p].geid = calSeq + 1, ![p].calIssued = TRUE]
       \/ /\ UNCHANGED << calendar, calSeq >>
          /\ frame' = [frame EXCEPT ![p].geid = 0]
    /\ pc' = [pc EXCEPT ![p] = "create_insert"]
    /\ UNCHANGED << appts, now, turn, result, reply, history, turnsStarted, callsStarted >>

\* an INSERT that stores the row as pending when no calendar event was created
NewRowPendingWithoutEvent(f) ==
    [id |-> Len(appts) + 1,
     customer_phone |-> f.phone,
     customer_name |-> f.name,
     service_type |-> f.service_type,
     appointment_date |-> f.date,
     appointment_time |-> f.time,
     duration_minutes |-> SALON_SERVICES[Lower(f.service_type)].duration,
     price |-> SALON_SERVICES[Lower(f.service_type)].price,
     status |-> IF f.geid = 0 THEN "pending" ELSE "confirmed",
     google_event_id |-> f.geid]

\* the row INSERT INTO salon_appointments ... RETURNING id writes
NewRow(f) ==
    [id |-> Len(appts) + 1,
     customer_phone |-> f.phone,
     customer_name |-> f.name,
     service_type |-> f.service_type,
     appointment_date |-> f.date,
     appointment_time |-> f.time,
     duration_minutes |-> SALON_SERVICES[Lower(f.service_type)].duration,
     price |-> SALON_SERVICES[Lower(f.service_type)].price,
     status |-> "confirmed",
     google_event_id |-> f.geid]

\* INSERT, commit and return of create_appointment
CreateInsert(p) ==
    /\ pc[p] = "create_insert"
    /\ LET f == frame[p]
           row == NewRow(f)
           service == SALON_SERVICES[Lower(f.service_type)]
       IN  IF ViolatesUnique(row, row.id)
           THEN /\ UNCHANGED appts
                /\ Returned(p, [success |-> FALSE, error |-> "SLOT_JUST_BOOKED",
                                date |-> f.date, time |-> f.time])
           ELSE /\ appts' = Append(appts, row)
                /\ Finished(p,
                            [success |-> TRUE, appointment_id |-> row.id,
                             customer_name |-> f.name, service |-> service.name_it,
                             service_en |-> service.name_en,
                             date |-> f.date, time |-> f.time, price |-> service.price,
                             calendar_synced |-> f.geid # 0],
                            [f EXCEPT !.id = row.id])
    /\ UNCHANGED << calendar, calSeq, now, reply, history, turnsStarted, callsStarted >>

\* ------------------------------------------------------------------ cancel_appointment

NotFound(appointment_id) ==
    [success |-> FALSE, error |-> "APPOINTMENT_NOT_FOUND", appointment_id |-> appointment_id]

\* execute_function("cancel_appointment"): up to and including the SELECT
DispatchCancel(p) ==
    /\ pc[p] = "dispatch"
    /\ \E appointment_id \in IdInputs, args_phone \in PhoneInputs :
         LET phone == normalize_phone(CallerPhone(turn[p].phone, args_phone)) IN
         IF ~OwnedConfirmed(appointment_id, phone)
         THEN Finished(p, NotFound(appointment_id),
                       Call("cancel_appointment", appointment_id))
         ELSE /\ frame' = [frame EXCEPT ![p] =
                     [NoFrame EXCEPT !.fn = "cancel_appointment", !.phone = phone,
                                     !.id = appointment_id,
                                     !.geid = appts[appointment_id].google_event_id]]
              /\ pc' = [pc EXCEPT ![p] =
                     IF appts[appointment_id].google_event_id # 0
                     THEN "cancel_cal" ELSE "cancel_update"]
              /\ UNCHANGED << turn, result >>
    /\ UNCHANGED << appts, calendar, calSeq, now, reply, history, turnsStarted, callsStarted >>

\* delete_calendar_event(google_event_id)
CancelCalendar(p) ==
    /\ pc[p] = "cancel_cal"
    /\ \/ /\ \E e \in calendar : e.id = frame[p].geid
          /\ calendar' = { e \in calendar : e.id # frame[p].geid }
          /\ frame' = [frame EXCEPT ![p].calIssued = TRUE]
       \/ UNCHANGED << calendar, frame >>
    /\ pc' = [pc EXCEPT ![p] = "cancel_update"]
    /\ UNCHANGED << appts, calSeq, now, turn, result, reply, history, turnsStarted, callsStarted >>

\* a cancel_appointment that removes the row with DELETE instead of updating its status
CancelDelete(p) ==
    /\ pc[p] = "cancel_update"
    /\ appts' = [i \in 1..(Len(appts) - 1) |->
                   IF i < frame[p].id THEN appts[i] ELSE appts[i + 1]]
    /\ Returned(p,
                [success |-> TRUE, cancelled_appointment_id |-> frame[p].id,
                 calendar_updated |-> frame[p].geid # 0])
    /\ UNCHANGED << calendar, calSeq, now, reply, history, turnsStarted, callsStarted >>

\* UPDATE salon_appointments SET status = 'cancelled' WHERE id = %s, commit, return
CancelUpdate(p) ==
    /\ pc[p] = "cancel_update"
    /\ appts' = [appts EXCEPT ![frame[p].id].status = "cancelled"]
    /\ Returned(p,
                [success |-> TRUE, cancelled_appointment_id |-> frame[p].id,
                 calendar_updated |-> frame[p].geid # 0])
    /\ UNCHANGED << calendar, calSeq, now, reply, history, turnsStarted, callsStarted >>

\* ------------------------------------------------------------------ modify_appointment

\* SALON_SERVICES.get(code) or the default of the keep-existing-service branch
ServiceOf(code) ==
    IF code \in DOMAIN SALON_SERVICES THEN SALON_SERVICES[code] ELSE DefaultService(code)

\* "Determine new values (use current if not provided)"
FinalDate(row, new_date) == IF new_date # <<>> THEN new_date ELSE row.appointment_date

FinalTime(row, new_time) == IF new_time # <<>> THEN new_time ELSE row.appointment_time

FinalService(row, new_service) ==
    IF new_service # "" THEN Lower(new_service) ELSE row.service_type

\* modify_appointment from the row it loaded to the business-day validation
\* a modify_appointment without the call of validate_business_day_and_time
ModifyCheckArgsUnvalidated(row, new_date, new_time, new_service) ==
    LET final_date == FinalDate(row, new_date)
        final_time == FinalTime(row, new_time)
        final_service == FinalService(row, new_service)
    IN  IF new_service # "" /\ final_service \notin DOMAIN SALON_SERVICES
        THEN [success |-> FALSE, error |-> "INVALID_SERVICE", provided |-> final_service]
        ELSE IF ~(ValidDate(final_date) /\ ValidTime(final_time))
        THEN [success |-> FALSE, error |-> "INVALID_DATE_TIME_FORMAT",
              provided_date |-> final_date, provided_time |-> final_time]
        ELSE IF DateTimeLess(final_date, final_time, Now)
        THEN [success |-> FALSE, error |-> "PAST_DATE_NOT_ALLOWED"]
        ELSE [success |-> TRUE]

ModifyCheckArgs(row, new_date, new_time, new_service) ==
    LET final_date == FinalDate(row, new_date)
        final_time == FinalTime(row, new_time)
        final_service == FinalService(row, new_service)
    IN  IF new_service # "" /\ final_service \notin DOMAIN SALON_SERVICES
        THEN [success |-> FALSE, error |-> "INVALID_SERVICE", provided |-> final_service]
        ELSE IF ~(ValidDate(final_date) /\ ValidTime(final_time))
        THEN [success |-> FALSE, error |-> "INVALID_DATE_TIME_FORMAT",
              provided_date |-> final_date, provided_time |-> final_time]
        ELSE IF DateTimeLess(final_date, final_time, Now)
        THEN [success |-> FALSE, error |-> "PAST_DATE_NOT_ALLOWED"]
        ELSE IF ~validate_business_day_and_time(final_date, final_time).valid
        THEN [success |-> FALSE,
              error |-> validate_business_day_and_time(final_date, final_time).error_code,
              date |-> final_date, time |-> final_time]
        ELSE [success |-> TRUE]

\* "Build change details", from the row loaded and the arguments
\* change details that report every field the call supplied, changed or not
ChangesAsSupplied(row, new_date, new_time, new_service) ==
    [date |-> IF new_date # <<>>
              THEN << row.appointment_date, new_date >> ELSE <<>>,
     time |-> IF new_time # <<>>
              THEN << row.appointment_time, new_time >> ELSE <<>>,
     service |-> IF new_service # ""
                 THEN << row.service_type, Lower(new_service) >> ELSE <<>>]

Changes(row, new_date, new_time, new_service) ==
    [date |-> IF new_date # <<>> /\ new_date # row.appointment_date
              THEN << row.appointment_date, new_date >> ELSE <<>>,
     time |-> IF new_time # <<>> /\ new_time # row.appointment_time
              THEN << row.appointment_time, new_time >> ELSE <<>>,
     service |-> IF new_service # "" /\ Lower(new_service) # Lower(row.service_type)
                 THEN << row.service_type, Lower(new_service) >> ELSE <<>>]

\* the locals of modify_appointment once the row is loaded
ModifyLocals(phone, row, new_date, new_time, new_service) ==
    [NoFrame EXCEPT !.fn = "modify_appointment", !.phone = phone,
                    !.id = row.id,
                    !.name = row.customer_name,
                    !.service_type = FinalService(row, new_service),
                    !.date = FinalDate(row, new_date),
                    !.time = FinalTime(row, new_time),
                    !.geid = row.google_event_id,
                    !.changes = Changes(row, new_date, new_time, new_service)]

\* execute_function("modify_appointment"): the SELECT of the row and the validation
DispatchModify(p) ==
    /\ pc[p] = "dispatch"
    /\ \E appointment_id \in IdInputs, args_phone \in PhoneInputs :
         LET phone == normalize_phone(CallerPhone(turn[p].phone, args_phone)) IN
         IF ~OwnedConfirmed(appointment_id, phone)
         THEN Finished(p, NotFound(appointment_id),
                       Call("modify_appointment", appointment_id))
         ELSE \E new_date \in DateInputs \cup {<<>>},
                 new_time \in TimeInputs \cup {<<>>},
                 new_service \in ServiceInputs \cup {""} :
              LET row == appts[appointment_id]
                  chk == ModifyCheckArgs(row, new_date, new_time, new_service)
                  locals == ModifyLocals(phone, row, new_date, new_time, new_service)
              IN  IF ~chk.success
                  THEN Finished(p, chk, locals)
                  ELSE /\ frame' = [frame EXCEPT ![p] = locals]
                       /\ pc' = [pc EXCEPT ![p] =
                              IF new_date # <<>> \/ new_time # <<>>
                              THEN "modify_check" ELSE "modify_update"]
                       /\ UNCHANGED << turn, result >>
    /\ UNCHANGED << appts, calendar, calSeq, now, reply, history, turnsStarted, callsStarted >>

\* SELECT COUNT(*) of confirmed rows on the new slot other than the row itself
ModifyCheck(p) ==
    /\ pc[p] = "modify_check"
    /\ IF SlotCountExcluding(frame[p].date, frame[p].time, frame[p].id) > 0
       THEN Returned(p, [success |-> FALSE, error |-> "SLOT_ALREADY_BOOKED",
                         date |-> frame[p].date, time |-> frame[p].time])
       ELSE /\ pc' = [pc EXCEPT ![p] = "modify_update"]
            /\ UNCHANGED << turn, frame, result >>
    /\ UNCHANGED << appts, calendar, calSeq, now, reply, history, turnsStarted, callsStarted >>

\* the success result of modify_appointment
ModifyResult(f) ==
    [success |-> TRUE, appointment_id |-> f.id, customer_name |-> f.name,
     service |-> ServiceOf(f.service_type).name_it,
     service_en |-> ServiceOf(f.service_type).name_en,
     new_date |-> f.date, new_time |-> f.time,
     changes |-> f.changes, calendar_updated |-> f.geid # 0]

\* an UPDATE that also writes status = 'confirmed'
UpdatedRowReconfirmed(f) ==
    [appts[f.id] EXCEPT !.appointment_date = f.date,
                        !.appointment_time = f.time,
                        !.service_type = f.service_type,
                        !.duration_minutes = ServiceOf(f.service_type).duration,
                        !.price = ServiceOf(f.service_type).price,
                        !.status = "confirmed"]

\* the row UPDATE salon_appointments SET ... WHERE id = %s leaves
UpdatedRow(f) ==
    [appts[f.id] EXCEPT !.appointment_date = f.date,
                        !.appointment_time = f.time,
                        !.service_type = f.service_type,
                        !.duration_minutes = ServiceOf(f.service_type).duration,
                        !.price = ServiceOf(f.service_type).price]

\* UPDATE and commit of modify_appointment; returns when there is no calendar event
ModifyUpdate(p) ==
    /\ pc[p] = "modify_update"
    /\ LET f == frame[p] IN
       IF ViolatesUnique(UpdatedRow(f), f.id)
       THEN /\ UNCHANGED appts
            /\ Returned(p, [success |-> FALSE, error |-> "SLOT_JUST_BOOKED"])
       ELSE /\ appts' = [appts EXCEPT ![f.id] = UpdatedRow(f)]
            /\ IF f.geid # 0
               THEN /\ pc' = [pc EXCEPT ![p] = "modify_cal"]
                    /\ frame' = [frame EXCEPT ![p].committed = TRUE]
                    /\ UNCHANGED << turn, result >>
               ELSE Returned(p, ModifyResult(f))
    /\ UNCHANGED << calendar, calSeq, now, reply, history, turnsStarted, callsStarted >>

\* update_calendar_event(google_event_id, ...) and return of modify_appointment
ModifyCalendar(p) ==
    /\ pc[p] = "modify_cal"
    /\ LET f == frame[p] IN
       /\ \/ /\ \E e \in calendar : e.id = f.geid
             /\ calendar' = { e \in calendar : e.id # f.geid } \cup
                   { [id |-> f.geid, date |-> f.date, time |-> f.time] }
             /\ Returned(p, ModifyResult(f))
          \/ /\ UNCHANGED calendar
             /\ Returned(p, ModifyResult(f))
    /\ UNCHANGED << appts, calSeq, now, reply, history, turnsStarted, callsStarted >>

\* ------------------------------------------------------------------ read-only functions

\* the value of str(e) in an except branch
EXCEPTION == "EXCEPTION"

check_availability(date, time) ==
    IF ~(ValidDate(date) /\ ValidTime(time))
    THEN [success |-> FALSE, error |-> EXCEPTION]
    ELSE [success |-> TRUE, available |-> SlotCount(date, time) = 0,
          date |-> date, time |-> time]

\* datetime.strftime("%I:%M %p").lstrip("0")
format_time_12h(t) ==
    << IF t[1] % 12 = 0 THEN 12 ELSE t[1] % 12, t[2], IF t[1] < 12 THEN "AM" ELSE "PM" >>

\* a WHERE clause without the condition on appointment_date and appointment_time
IsActiveAtAnyTime(i, phone) ==
    /\ appts[i].customer_phone = phone
    /\ appts[i].status = "confirmed"

\* the WHERE clause of get_customer_appointments
IsActiveFor(i, phone) ==
    /\ appts[i].customer_phone = phone
    /\ appts[i].status = "confirmed"
    /\ \/ DateLess(Now.date, appts[i].appointment_date)
       \/ /\ appts[i].appointment_date = Now.date
          /\ TimeLess(Now.time, appts[i].appointment_time)

\* row i comes before row j under ORDER BY appointment_date, appointment_time
RowBefore(i, j) ==
    \/ DateLess(appts[i].appointment_date, appts[j].appointment_date)
    \/ /\ appts[i].appointment_date = appts[j].appointment_date
       /\ TimeLess(appts[i].appointment_time, appts[j].appointment_time)
    \/ /\ appts[i].appointment_date = appts[j].appointment_date
       /\ appts[i].appointment_time = appts[j].appointment_time
       /\ i < j

RECURSIVE Ordered(_)
Ordered(ids) ==
    IF ids = {} THEN <<>>
    ELSE LET first == CHOOSE i \in ids : \A j \in ids \ {i} : RowBefore(i, j)
         IN  << first >> \o Ordered(ids \ {first})

\* one element of the "appointments" list
Listed(i) ==
    [appointment_id |-> appts[i].id,
     booked_name |-> appts[i].customer_name,
     service_code |-> appts[i].service_type,
     date |-> appts[i].appointment_date,
     time |-> format_time_12h(appts[i].appointment_time),
     price |-> appts[i].price,
     status |-> appts[i].status]

get_customer_appointments(customer_phone) ==
    LET phone == normalize_phone(customer_phone)
        ids == Ordered({ i \in DOMAIN appts : IsActiveFor(i, phone) })
    IN  [success |-> TRUE,
         your_phone |-> IF Len(phone) >= 4
                       THEN << "*", "*", "*" >> \o SubSeq(phone, Len(phone) - 3, Len(phone))
                       ELSE phone,
         appointments |-> [k \in 1..Len(ids) |-> Listed(ids[k])],
         count |-> Len(ids)]

\* now + timedelta(minutes=30), as its "%H:%M"
PlusHalfHour(t) ==
    IF t[2] + 30 < 60 THEN << t[1], t[2] + 30 >> ELSE << (t[1] + 1) % 24, t[2] + 30 - 60 >>

\* all_slots: HH:00 and HH:30 for every hour from 9 to the closing hour
RECURSIVE AllSlots(_, _)
AllSlots(hour, closing_hour) ==
    IF hour >= closing_hour THEN <<>>
    ELSE << <<hour, 0>>, <<hour, 30>> >> \o AllSlots(hour + 1, closing_hour)

\* a slot listing that does not filter out the booked times
get_slots_of_the_day(date) ==
    IF ~ValidDate(date)
    THEN [success |-> FALSE, error |-> "INVALID_DATE_FORMAT", provided_date |-> date]
    ELSE IF DateLess(date, Now.date)
    THEN [success |-> FALSE, error |-> "PAST_DATE_NOT_ALLOWED"]
    ELSE IF ~validate_business_day_and_time(date, <<>>).valid
    THEN [success |-> TRUE, date |-> date, available_slots |-> <<>>, count |-> 0,
          closed |-> TRUE]
    ELSE LET closing_hour == IF Weekday(date) = 5 THEN 17 ELSE 18
             NotPast(slot) == ~TimeLess(slot, PlusHalfHour(Now.time))
             all_slots == AllSlots(9, closing_hour)
             available_slots == IF date = Now.date THEN SelectSeq(all_slots, NotPast)
                                ELSE all_slots
         IN  [success |-> TRUE, date |-> date, available_slots |-> available_slots,
              count |-> Len(available_slots)]

get_available_slots(date) ==
    IF ~ValidDate(date)
    THEN [success |-> FALSE, error |-> "INVALID_DATE_FORMAT", provided_date |-> date]
    ELSE IF DateLess(date, Now.date)
    THEN [success |-> FALSE, error |-> "PAST_DATE_NOT_ALLOWED"]
    ELSE IF ~validate_business_day_and_time(date, <<>>).valid
    THEN [success |-> TRUE, date |-> date, available_slots |-> <<>>, count |-> 0,
          closed |-> TRUE]
    ELSE LET closing_hour == IF Weekday(date) = 5 THEN 17 ELSE 18
             booked_times == { appts[i].appointment_time : i \in
                                 { j \in DOMAIN appts : /\ appts[j].appointment_date = date
                                                        /\ appts[j].status = "confirmed" } }
             Free(slot) == slot \notin booked_times
             NotPast(slot) == ~TimeLess(slot, PlusHalfHour(Now.time))
             free == SelectSeq(AllSlots(9, closing_hour), Free)
             available_slots == IF date = Now.date THEN SelectSeq(free, NotPast) ELSE free
         IN  [success |-> TRUE, date |-> date, available_slots |-> available_slots,
              count |-> Len(available_slots)]

\* a check_availability that puts a hold on the slot in the calendar when it is free
DispatchCheckAvailabilityHolding(p) ==
    /\ pc[p] = "dispatch"
    /\ \E date \in DateInputs, time \in TimeInputs :
         /\ Finished(p, check_availability(date, time), Call("check_availability", 0))
         /\ calendar' = IF check_availability(date, time).success
                           /\ check_availability(date, time).available
                        THEN calendar \cup { [id |-> 0, date |-> date, time |-> time] }
                        ELSE calendar
    /\ UNCHANGED << appts, calSeq, now, reply, history, turnsStarted, callsStarted >>

\* execute_function("check_availability")
DispatchCheckAvailability(p) ==
    /\ pc[p] = "dispatch"
    /\ \E date \in DateInputs, time \in TimeInputs :
         Finished(p, check_availability(date, time), Call("check_availability", 0))
    /\ UNCHANGED << appts, calendar, calSeq, now, reply, history, turnsStarted, callsStarted >>

\* execute_function("get_customer_appointments")
DispatchGetAppointments(p) ==
    /\ pc[p] = "dispatch"
    /\ \E args_phone \in PhoneInputs :
         Finished(p, get_customer_appointments(CallerPhone(turn[p].phone, args_phone)),
                  Call("get_customer_appointments", 0))
    /\ UNCHANGED << appts, calendar, calSeq, now, reply, history, turnsStarted, callsStarted >>

\* the dates get_available_slots is asked about: those of the other tools and a
\* Saturday, 2026-01-03, for the earlier closing hour
SlotDateInputs == DateInputs \cup { <<2026, 1, 3>> }

\* execute_function("get_available_slots")
DispatchGetSlots(p) ==
    /\ pc[p] = "dispatch"
    /\ \E date \in SlotDateInputs :
         Finished(p, get_available_slots(date), Call("get_available_slots", 0))
    /\ UNCHANGED << appts, calendar, calSeq, now, reply, history, turnsStarted, callsStarted >>

\* argument payloads of a tool call: a JSON object, and a text json.loads rejects
ArgumentInputs == { "{}", "not json" }

\* json.loads(arguments) returns
Parses(arguments) == arguments # "not json"

\* tool names with no branch in execute_function
UnknownNames == { "delete_everything" }

\* an execute_function whose if/elif chain has no else branch: the call returns None
ReturnsNone(function_name, arguments) == NoResult

\* execute_function(function_name, arguments, phone) for a name no branch matches:
\* json.loads runs first, the else branch is reached only if it returns
execute_unknown(function_name, arguments) ==
    IF ~Parses(arguments)
    THEN [success |-> FALSE, error |-> EXCEPTION]
    ELSE [success |-> FALSE, error |-> "UNKNOWN_FUNCTION", function_name |-> function_name]

\* execute_function with a name outside the dispatch table
DispatchUnknown(p) ==
    /\ pc[p] = "dispatch"
    /\ \E function_name \in UnknownNames, arguments \in ArgumentInputs :
         Finished(p, execute_unknown(function_name, arguments), Call(function_name, 0))
    /\ UNCHANGED << appts, calendar, calSeq, now, reply, history, turnsStarted, callsStarted >>

\* the names execute_function has a branch for
ToolNames ==
    { "create_appointment", "check_availability", "get_customer_appointments",
      "cancel_appointment", "modify_appointment", "get_available_slots" }

\* the keys a branch of execute_function subscripts args with
RequiredKeys(function_name) ==
    CASE function_name = "create_appointment" ->
             { "customer_name", "service_type", "date", "time" }
      [] function_name = "check_availability" -> { "date", "time" }
      [] function_name = "get_customer_appointments" -> {}
      [] function_name = "cancel_appointment" -> { "appointment_id" }
      [] function_name = "modify_appointment" -> { "appointment_id" }
      [] function_name = "get_available_slots" -> { "date" }

\* json.loads(arguments) raises, or args[key] raises KeyError on the object "{}"
Malformed(function_name, arguments) ==
    \/ ~Parses(arguments)
    \/ arguments = "{}" /\ RequiredKeys(function_name) # {}

\* an execute_function without its try/except: the error reaches the except branch of
\* get_ai_response, which abandons the round and returns the apology
BadArgsAbortTurn(p) ==
    /\ pc[p] = "dispatch"
    /\ reply' = [reply EXCEPT ![p] = FALLBACK_REPLY]
    /\ pc' = [pc EXCEPT ![p] = "send"]
    /\ turn' = [turn EXCEPT ![p].pending = 0]
    /\ UNCHANGED << frame, result >>
    /\ UNCHANGED << appts, calendar, calSeq, now, history, turnsStarted, callsStarted >>

\* execute_function whose arguments fail json.loads or lack a required key: the
\* error is raised before any booking function is entered
DispatchBadArgs(p) ==
    /\ pc[p] = "dispatch"
    /\ \E function_name \in ToolNames, arguments \in ArgumentInputs :
         /\ Malformed(function_name, arguments)
         /\ Finished(p, [success |-> FALSE, error |-> EXCEPTION], Call(function_name, 0))
    /\ UNCHANGED << appts, calendar, calSeq, now, reply, history, turnsStarted, callsStarted >>

\* ------------------------------------------------------------------ the validator alone

\* the years the validator is called on: a leap year and the year of the tests
ValidatorYears == { 2024, 2025 }

\* date_str: every day number 1..31 of every month, the malformed ones included
ValidatorDates == { << y, m, d >> : y \in ValidatorYears, m \in 1..12, d \in 1..31 }

\* time_str: inside the opening hours, outside them, malformed ("25:00"), and the
\* default None
ValidatorTimes == { << 10, 0 >>, << 20, 0 >>, << 25, 0 >>, << >> }

\* one call validate_business_day_and_time(date_str, time_str) about to be made by
\* replica 1 on an empty store
ValidatorInit ==
    /\ appts = <<>>
    /\ calendar = {}
    /\ calSeq = 0
    /\ now = 1
    /\ turn = [p \in Procs |-> NoTurn]
    /\ reply = [p \in Procs |-> ""]
    /\ history = [p \in Procs |-> [ph \in PhoneInputs |-> <<>>]]
    /\ turnsStarted = 0
    /\ callsStarted = 0
    /\ result = [p \in Procs |-> NoResult]
    /\ pc = [p \in Procs |-> IF p = 1 THEN "validate" ELSE "idle"]
    /\ \E date_str \in ValidatorDates, time_str \in ValidatorTimes :
         frame = [p \in Procs |->
                    IF p = 1
                    THEN [NoFrame EXCEPT !.fn = "validate_business_day_and_time",
                                         !.date = date_str, !.time = time_str]
                    ELSE NoFrame]

\* the call returns
Validate(p) ==
    /\ pc[p] = "validate"
    /\ result' = [result EXCEPT ![p] =
                    validate_business_day_and_time(frame[p].date, frame[p].time)]
    /\ pc' = [pc EXCEPT ![p] = "validated"]
    /\ UNCHANGED << appts, calendar, calSeq, now, turn, frame, reply, history,
                    turnsStarted, callsStarted >>

ValidatorNext == \E p \in Procs : Validate(p)

\* ------------------------------------------------------------------ normalize_phone alone

\* the longest phone string normalize_phone is called on
MaxPhoneLen == 4

\* the characters of the phone strings: digits, zero among them, and a non-digit
PhoneChars == { "0", "1", "2", "+" }

\* every string of at most MaxPhoneLen characters, the empty one included
PhoneStrings == UNION { [1..n -> PhoneChars] : n \in 0..MaxPhoneLen }

\* one call normalize_phone(phone) about to be made by replica 1 on an empty store
NormalizeInit ==
    /\ appts = <<>>
    /\ calendar = {}
    /\ calSeq = 0
    /\ now = 1
    /\ turn = [p \in Procs |-> NoTurn]
    /\ reply = [p \in Procs |-> ""]
    /\ history = [p \in Procs |-> [ph \in PhoneInputs |-> <<>>]]
    /\ turnsStarted = 0
    /\ callsStarted = 0
    /\ result = [p \in Procs |-> NoResult]
    /\ pc = [p \in Procs |-> IF p = 1 THEN "normalize" ELSE "idle"]
    /\ \E phone \in PhoneStrings :
         frame = [p \in Procs |->
                    IF p = 1
                    THEN [NoFrame EXCEPT !.fn = "normalize_phone", !.phone = phone]
                    ELSE NoFrame]

\* normalize_phone(phone) returns
Normalize(p) ==
    /\ pc[p] = "normalize"
    /\ result' = [result EXCEPT ![p] = [normalized |-> normalize_phone(frame[p].phone)]]
    /\ pc' = [pc EXCEPT ![p] = "normalized"]
    /\ UNCHANGED << appts, calendar, calSeq, now, turn, frame, reply, history,
                    turnsStarted, callsStarted >>

\* normalize_phone called on what the first call returned
NormalizeAgain(p) ==
    /\ pc[p] = "normalized"
    /\ result' = [result EXCEPT ![p] =
                    [normalized |-> result[p].normalized,
                     again |-> normalize_phone(result[p].normalized)]]
    /\ pc' = [pc EXCEPT ![p] = "renormalized"]
    /\ UNCHANGED << appts, calendar, calSeq, now, turn, frame, reply, history,
                    turnsStarted, callsStarted >>

NormalizeNext ==
    \/ \E p \in Procs : Normalize(p)
    \/ \E p \in Procs : NormalizeAgain(p)

\* ------------------------------------------------------------------ mock calendar

\* self.mock_calendar of ProductionCalendarService(use_real_calendar=False): the times
\* offered on each date
mock_calendar ==
    [d \in { <<2025, 11, 10>>, <<2025, 11, 11>>, <<2025, 11, 12>>, <<2025, 11, 13>>,
             <<2025, 11, 14>> } |->
       IF d = <<2025, 11, 10>> THEN << <<9, 0>>, <<11, 0>> >>
       ELSE IF d = <<2025, 11, 11>> THEN << <<9, 0>>, <<11, 0>>, <<14, 0>>, <<16, 0>> >>
       ELSE IF d = <<2025, 11, 12>> THEN << <<10, 0>>, <<15, 0>>, <<17, 0>> >>
       ELSE IF d = <<2025, 11, 13>> THEN << <<9, 0>>, <<13, 0>>, <<16, 0>> >>
       ELSE << <<9, 0>>, <<14, 0>>, <<18, 0>> >>]

\* the dates the mock is called with: one of mock_calendar, one it does not know
MockDates == { <<2025, 11, 10>>, <<2025, 11, 15>> }

\* the times the mock is called with: one offered on 2025-11-10, one not offered, and
\* the default None of cancel_appointment
MockTimes == { <<9, 0>>, <<10, 0>>, << >> }

MockNames == { "Marco Rossi", "Anna" }

\* the time ranges get_available_slots is called with
MockRanges == { "intera_giornata", "mattina", "pomeriggio" }

\* self.mock_calendar.get(date, [])
MockOffered(date) == IF date \in DOMAIN mock_calendar THEN mock_calendar[date] ELSE << >>

\* the keys of self.mock_appointments.get(date, {}); the mock's appointments are held
\* as the set of their [date, time, customer_name]
MockBooked(appointments, date) == { a.time : a \in { b \in appointments : b.date = date } }

\* _mock_check_availability
mock_check_availability(appointments, date, time) ==
    /\ \E i \in DOMAIN MockOffered(date) : MockOffered(date)[i] = time
    /\ time \notin MockBooked(appointments, date)

\* self.mock_appointments after _mock_book_appointment: the entry of the slot is
\* written, whatever it held
mock_booked(appointments, date, time, customer_name) ==
    { a \in appointments : ~(a.date = date /\ a.time = time) }
      \cup { [date |-> date, time |-> time, customer_name |-> customer_name] }

\* a cancellation that reports success and leaves the entry in place
mock_cancelled_kept(appointments, date, time) == appointments

\* self.mock_appointments after del self.mock_appointments[date][time]
mock_cancelled(appointments, date, time) ==
    { a \in appointments : ~(a.date = date /\ a.time = time) }

\* time <= "12:00" and time >= "13:00" on the "HH:MM" strings of the mock
MockInRange(time, time_range) ==
    IF time_range = "mattina" THEN time[1] < 12 \/ time = <<12, 0>>
    ELSE IF time_range = "pomeriggio" THEN time[1] >= 13
    ELSE TRUE

\* _mock_get_available_slots
mock_get_available_slots(appointments, date, time_range) ==
    LET free(t) == t \notin MockBooked(appointments, date) /\ MockInRange(t, time_range)
    IN  SelectSeq(MockOffered(date), free)

\* a ProductionCalendarService in mock mode, just constructed, used by replica 1; its
\* mock_appointments are held in the calendar variable
MockInit ==
    /\ appts = <<>>
    /\ calendar = {}
    /\ calSeq = 0
    /\ now = 1
    /\ turn = [p \in Procs |-> NoTurn]
    /\ reply = [p \in Procs |-> ""]
    /\ history = [p \in Procs |-> [ph \in PhoneInputs |-> <<>>]]
    /\ turnsStarted = 0
    /\ callsStarted = 0
    /\ result = [p \in Procs |-> NoResult]
    /\ frame = [p \in Procs |-> NoFrame]
    /\ pc = [p \in Procs |-> IF p = 1 THEN "mock" ELSE "idle"]

\* the arguments of a call on the mock
MockFrame(fn, date, time, name) ==
    [NoFrame EXCEPT !.fn = fn, !.date = date, !.time = time, !.name = name]

\* check_availability(date, time)
MockCheck(p) ==
    /\ pc[p] = "mock"
    /\ \E date \in MockDates, time \in MockTimes :
         /\ frame' = [frame EXCEPT ![p] = MockFrame("check_availability", date, time, "")]
         /\ result' = [result EXCEPT ![p] =
                         [available |-> mock_check_availability(calendar, date, time)]]
    /\ UNCHANGED << appts, calendar, calSeq, now, pc, turn, reply, history,
                    turnsStarted, callsStarted >>

\* book_appointment(date, time, customer_name)
MockBook(p) ==
    /\ pc[p] = "mock"
    /\ \E date \in MockDates, time \in MockTimes, customer_name \in MockNames :
         /\ frame' = [frame EXCEPT ![p] =
                        MockFrame("book_appointment", date, time, customer_name)]
         /\ calendar' = mock_booked(calendar, date, time, customer_name)
         /\ result' = [result EXCEPT ![p] =
                         [success |-> TRUE,
                          appointment_id |-> << date, time, customer_name >>,
                          customer_name |-> customer_name, date |-> date, time |-> time]]
    /\ UNCHANGED << appts, calSeq, now, pc, turn, reply, history, turnsStarted,
                    callsStarted >>

\* cancel_appointment(date, time, customer_name)
MockCancel(p) ==
    /\ pc[p] = "mock"
    /\ \E date \in MockDates, time \in MockTimes, customer_name \in MockNames :
         /\ frame' = [frame EXCEPT ![p] =
                        MockFrame("cancel_appointment", date, time, customer_name)]
         /\ IF time \in MockBooked(calendar, date)
            THEN /\ calendar' = mock_cancelled(calendar, date, time)
                 /\ result' = [result EXCEPT ![p] =
                                 [success |-> TRUE, date |-> date, time |-> time]]
            ELSE /\ calendar' = calendar
                 /\ result' = [result EXCEPT ![p] =
                                 [success |-> FALSE, error |-> "Appointment not found"]]
    /\ UNCHANGED << appts, calSeq, now, pc, turn, reply, history, turnsStarted,
                    callsStarted >>

\* get_available_slots(date, time_range)
MockGetSlots(p) ==
    /\ pc[p] = "mock"
    /\ \E date \in MockDates, time_range \in MockRanges :
         /\ frame' = [frame EXCEPT ![p] =
                        MockFrame("get_available_slots", date, << >>, time_range)]
         /\ result' = [result EXCEPT ![p] =
                         [slots |-> mock_get_available_slots(calendar, date, time_range)]]
    /\ UNCHANGED << appts, calendar, calSeq, now, pc, turn, reply, history,
                    turnsStarted, callsStarted >>

MockNext ==
    \/ \E p \in Procs : MockCheck(p)
    \/ \E p \in Procs : MockBook(p)
    \/ \E p \in Procs : MockCancel(p)
    \/ \E p \in Procs : MockGetSlots(p)

\* ------------------------------------------------------------------ conversation memory

\* add_message calls made on the contexts of a run
MaxAdds == 53

\* len(self.messages) above which add_message cuts the list, and the length it cuts to
KeepLimit == 50

KeepNewest == 40

\* LyoConversationMessage; the content of the n-th message added to a context is n, the
\* role alternates as in a conversation, the timestamp is left out
LyoConversationMessage(n, sequence) ==
    [role |-> IF n % 2 = 1 THEN "user" ELSE "assistant", content |-> n,
     language |-> "italian", intent_type |-> "general", sequence |-> sequence]

\* messages[-count:]
LastOf(messages, count) ==
    IF Len(messages) <= count THEN messages
    ELSE SubSeq(messages, Len(messages) - count + 1, Len(messages))

\* an add_message that cuts the list to its oldest messages
add_message_keeping_oldest(messages, n) ==
    LET appended == Append(messages, LyoConversationMessage(n, Len(messages)))
    IN  IF Len(appended) > KeepLimit THEN SubSeq(appended, 1, KeepNewest) ELSE appended

\* self.messages after LyoConversationContext.add_message
add_message(messages, n) ==
    LET appended == Append(messages, LyoConversationMessage(n, Len(messages)))
    IN  IF Len(appended) > KeepLimit THEN LastOf(appended, KeepNewest) ELSE appended

\* the number of add_message calls a context has had
Added(messages) == IF messages = << >> THEN 0 ELSE messages[Len(messages)].content

\* two new LyoConversationContext, one per session id, held by replica 1; their
\* message lists are kept in the history variable
MemoryInit ==
    /\ appts = <<>>
    /\ calendar = {}
    /\ calSeq = 0
    /\ now = 1
    /\ turn = [p \in Procs |-> NoTurn]
    /\ reply = [p \in Procs |-> ""]
    /\ history = [p \in Procs |-> [ph \in PhoneInputs |-> <<>>]]
    /\ turnsStarted = 0
    /\ callsStarted = 0
    /\ result = [p \in Procs |-> NoResult]
    /\ frame = [p \in Procs |-> NoFrame]
    /\ pc = [p \in Procs |-> IF p = 1 THEN "memory" ELSE "idle"]

\* context.add_message(role, content) on the context of one session
AddMessage(p) ==
    /\ pc[p] = "memory"
    /\ callsStarted < MaxAdds
    /\ \E session_id \in PhoneInputs :
         /\ history' = [history EXCEPT ![p][session_id] =
                          add_message(@, Added(@) + 1)]
         /\ frame' = [frame EXCEPT ![p] =
                        [NoFrame EXCEPT !.fn = "add_message", !.phone = session_id]]
    /\ callsStarted' = callsStarted + 1
    /\ UNCHANGED << appts, calendar, calSeq, now, pc, turn, result, reply, turnsStarted >>

MemoryNext == \E p \in Procs : AddMessage(p)

\* ------------------------------------------------------------------ webhook forwarding

\* WebhookHandler.MAX_RETRIES and RETRY_DELAY, at their defaults
MAX_RETRIES == 3

RETRY_DELAY == 1

\* what one urlopen of the forwarding request can end in: a response read and decoded
\* (2xx), urllib.error.HTTPError with a 4xx or a 5xx status, urllib.error.URLError, and
\* any other exception (a timeout while the body is read, a body that does not decode)
ForwardOutcomes ==
    { [kind |-> "response", code |-> 200],
      [kind |-> "HTTPError", code |-> 404],
      [kind |-> "HTTPError", code |-> 500],
      [kind |-> "HTTPError", code |-> 503],
      [kind |-> "URLError", code |-> 0],
      [kind |-> "Exception", code |-> 0] }

\* last_error as the except branches set it
LastError(outcome) ==
    IF outcome.kind = "HTTPError" THEN << "HTTP", outcome.code >>
    ELSE IF outcome.kind = "URLError" THEN << "Connection error" >>
    ELSE << "Unexpected error" >>

\* a loop that gives up on every HTTPError
BreaksOnAnyHTTPError(outcome) == outcome.kind = "HTTPError"

\* "if e.code < 500: break" in the HTTPError branch
Breaks(outcome) == outcome.kind = "HTTPError" /\ outcome.code < 500

RECURSIVE Pow2(_)
Pow2(n) == IF n = 0 THEN 1 ELSE 2 * Pow2(n - 1)

\* time.sleep(min(delay, 10)) with delay = RETRY_DELAY * (2 ** attempt)
BackoffSleep(attempt) ==
    IF RETRY_DELAY * Pow2(attempt) < 10 THEN RETRY_DELAY * Pow2(attempt) ELSE 10

\* the locals of _forward_with_retry on entry; sent is the list of the requests made,
\* each with its X-Retry-Attempt header and what it ended in, slept the sleeps taken
ForwardLocals ==
    [fn |-> "_forward_with_retry", attempt |-> 0, last_error |-> << >>,
     sent |-> << >>, slept |-> << >>]

\* every replica has received one webhook and enters _forward_with_retry
WebhookInit ==
    /\ appts = <<>>
    /\ calendar = {}
    /\ calSeq = 0
    /\ now = 1
    /\ turn = [p \in Procs |-> NoTurn]
    /\ reply = [p \in Procs |-> ""]
    /\ history = [p \in Procs |-> [ph \in PhoneInputs |-> <<>>]]
    /\ turnsStarted = 0
    /\ callsStarted = 0
    /\ result = [p \in Procs |-> NoResult]
    /\ frame = [p \in Procs |-> ForwardLocals]
    /\ pc = [p \in Procs |-> IF MAX_RETRIES > 0 THEN "forward" ELSE "exhausted"]

\* one pass of the for loop up to the backoff: the request is made and answered
ForwardAttempt(p) ==
    /\ pc[p] = "forward"
    /\ \E outcome \in ForwardOutcomes :
         LET f == frame[p]
             sent == Append(f.sent, [attempt |-> f.attempt, outcome |-> outcome])
         IN  IF outcome.kind = "response"
             THEN /\ result' = [result EXCEPT ![p] =
                                  << TRUE, [code |-> outcome.code, data |-> "body"] >>]
                  /\ frame' = [frame EXCEPT ![p].sent = sent]
                  /\ pc' = [pc EXCEPT ![p] = "forwarded"]
             ELSE /\ frame' = [frame EXCEPT ![p].sent = sent,
                                           ![p].last_error = LastError(outcome)]
                  /\ pc' = [pc EXCEPT ![p] =
                              IF Breaks(outcome) THEN "exhausted" ELSE "backoff"]
                  /\ UNCHANGED result
    /\ UNCHANGED << appts, calendar, calSeq, now, turn, reply, history, turnsStarted,
                    callsStarted >>

\* the end of a pass that failed: the sleep before a retry, then the next pass, or the
\* end of the loop after the last pass
ForwardBackoff(p) ==
    /\ pc[p] = "backoff"
    /\ LET f == frame[p] IN
       /\ frame' = [frame EXCEPT
                      ![p].slept = IF f.attempt < MAX_RETRIES - 1
                                   THEN Append(f.slept, BackoffSleep(f.attempt))
                                   ELSE f.slept,
                      ![p].attempt = IF f.attempt < MAX_RETRIES - 1
                                     THEN f.attempt + 1 ELSE f.attempt]
       /\ pc' = [pc EXCEPT ![p] =
                   IF f.attempt < MAX_RETRIES - 1 THEN "forward" ELSE "exhausted"]
    /\ UNCHANGED << appts, calendar, calSeq, now, turn, result, reply, history,
                    turnsStarted, callsStarted >>

\* return False, {'error': last_error}
ForwardFails(p) ==
    /\ pc[p] = "exhausted"
    /\ result' = [result EXCEPT ![p] = << FALSE, [error |-> frame[p].last_error] >>]
    /\ pc' = [pc EXCEPT ![p] = "forwarded"]
    /\ UNCHANGED << appts, calendar, calSeq, now, turn, frame, reply, history,
                    turnsStarted, callsStarted >>

WebhookNext ==
    \/ \E p \in Procs : ForwardAttempt(p)
    \/ \E p \in Procs : ForwardBackoff(p)
    \/ \E p \in Procs : ForwardFails(p)

\* ------------------------------------------------------------------ one customer, two formats

\* two strings the transport may deliver for one customer: they differ in a non-digit
\* character and in leading zeros only
PhoneFormats == { << "+", "2" >>, << "0", "0", "2" >> }

FormatInit ==
    /\ appts = <<>>
    /\ calendar = {}
    /\ calSeq = 0
    /\ now = 1
    /\ pc \in { Positions(started) : started \in Started }
    /\ turn = [p \in Procs |-> NoTurn]
    /\ frame = [p \in Procs |-> NoFrame]
    /\ result = [p \in Procs |-> NoResult]
    /\ reply = [p \in Procs |-> ""]
    /\ history = [p \in Procs |-> [ph \in PhoneFormats |-> <<>>]]
    /\ turnsStarted = 0
    /\ callsStarted = 0

FormatNext ==
    \/ \E p \in Procs : StartTurnFrom(p, PhoneFormats)
    \/ \E p \in Procs : ModelCall(p)
    \/ \E p \in Procs : ModelError(p)
    \/ \E p \in Procs : SendReply(p)
    \/ \E p \in Procs : DispatchCreate(p)
    \/ \E p \in Procs : CreateCalendar(p)
    \/ \E p \in Procs : CreateInsert(p)
    \/ \E p \in Procs : DispatchCancel(p)
    \/ \E p \in Procs : CancelCalendar(p)
    \/ \E p \in Procs : CancelUpdate(p)
    \/ \E p \in Procs : DispatchModify(p)
    \/ \E p \in Procs : ModifyCheck(p)
    \/ \E p \in Procs : ModifyUpdate(p)
    \/ \E p \in Procs : ModifyCalendar(p)
    \/ \E p \in Procs : DispatchCheckAvailability(p)
    \/ \E p \in Procs : DispatchGetAppointments(p)
    \/ \E p \in Procs : DispatchGetSlots(p)
    \/ \E p \in Procs : DispatchUnknown(p)
    \/ \E p \in Procs : DispatchBadArgs(p)
    \/ Tick

\* ------------------------------------------------------------------ specification

Next ==
    \/ \E p \in Procs : StartTurn(p)
    \/ \E p \in Procs : ModelCall(p)
    \/ \E p \in Procs : ModelError(p)
    \/ \E p \in Procs : SendReply(p)
    \/ \E p \in Procs : DispatchCreate(p)
    \/ \E p \in Procs : CreateCalendar(p)
    \/ \E p \in Procs : CreateInsert(p)
    \/ \E p \in Procs : DispatchCancel(p)
    \/ \E p \in Procs : CancelCalendar(p)
    \/ \E p \in Procs : CancelUpdate(p)
    \/ \E p \in Procs : DispatchModify(p)
    \/ \E p \in Procs : ModifyCheck(p)
    \/ \E p \in Procs : ModifyUpdate(p)
    \/ \E p \in Procs : ModifyCalendar(p)
    \/ \E p \in Procs : DispatchCheckAvailability(p)
    \/ \E p \in Procs : DispatchGetAppointments(p)
    \/ \E p \in Procs : DispatchGetSlots(p)
    \/ \E p \in Procs : DispatchUnknown(p)
    \/ \E p \in Procs : DispatchBadArgs(p)
    \/ Tick

Spec == Init /\ [][Next]_vars

\* the steps of Next, every run followed as far as that of a replica serving alone
RaceNext ==
    \/ \E p \in Procs : StartTurn(p)
    \/ \E p \in Procs : ModelCallWithin(p, MaxDeepCalls)
    \/ \E p \in Procs : ModelError(p)
    \/ \E p \in Procs : SendReply(p)
    \/ \E p \in Procs : DispatchCreate(p)
    \/ \E p \in Procs : CreateCalendar(p)
    \/ \E p \in Procs : CreateInsert(p)
    \/ \E p \in Procs : DispatchCancel(p)
    \/ \E p \in Procs : CancelCalendar(p)
    \/ \E p \in Procs : CancelUpdate(p)
    \/ \E p \in Procs : DispatchModify(p)
    \/ \E p \in Procs : ModifyCheck(p)
    \/ \E p \in Procs : ModifyUpdate(p)
    \/ \E p \in Procs : ModifyCalendar(p)
    \/ \E p \in Procs : DispatchCheckAvailability(p)
    \/ \E p \in Procs : DispatchGetAppointments(p)
    \/ \E p \in Procs : DispatchGetSlots(p)
    \/ \E p \in Procs : DispatchUnknown(p)
    \/ \E p \in Procs : DispatchBadArgs(p)
    \/ Tick

\* the program with three tool calls raced by two replicas
RaceSpec == Init /\ [][RaceNext]_vars

\* the validator called once, on any date and time of its input sets
ValidatorSpec == ValidatorInit /\ [][ValidatorNext]_vars

\* the program serving one customer whose phone arrives in two formats
FormatSpec == FormatInit /\ [][FormatNext]_vars

\* normalize_phone called on any phone string of its input set, then on its own result
NormalizeSpec == NormalizeInit /\ [][NormalizeNext]_vars

\* the mock calendar under any sequence of calls
MockSpec == MockInit /\ [][MockNext]_vars

\* the conversation contexts under any sequence of add_message calls
MemorySpec == MemoryInit /\ [][MemoryNext]_vars

\* two webhooks forwarded concurrently, each with its retries
WebhookSpec == WebhookInit /\ [][WebhookNext]_vars

\* ------------------------------------------------------------------ properties

\* replica p takes the step
Steps(p) == pc'[p] # pc[p] \/ turn'[p] # turn[p]

\* the step is the return of a call of execute_function on replica p
Returns(p) == turn'[p].nextId = turn[p].nextId + 1

\* the latest call on replica p has returned, with success / without
Succeeded(p) == "success" \in DOMAIN result[p] /\ result[p].success

Failed(p) == "success" \in DOMAIN result[p] /\ ~result[p].success

\* a confirmed appointment holds the slot (d, t)
SlotHeld(d, t) ==
    \E i \in DOMAIN appts :
        /\ appts[i].status = "confirmed"
        /\ appts[i].appointment_date = d
        /\ appts[i].appointment_time = t

\* the phone the transport layer handed to the turn of replica p, as stored
Caller(p) == normalize_phone(turn[p].phone)

\* C1: in every reachable state at most one confirmed appointment exists for any
\* (date, time), concurrent creates that interleave between the SELECT COUNT and
\* the INSERT included.
C1_OneConfirmedPerSlot ==
    \A i, j \in DOMAIN appts :
        (/\ i # j
         /\ appts[i].status = "confirmed"
         /\ appts[j].status = "confirmed")
        => ~(/\ appts[i].appointment_date = appts[j].appointment_date
             /\ appts[i].appointment_time = appts[j].appointment_time)

\* C2: no step moves a confirmed appointment onto a (date, time) that a different
\* confirmed appointment holds, whatever the interleaving of creates, modifies and
\* cancels.
C2_ModifyNeverOntoHeldSlot ==
    [][\A i \in DOMAIN appts :
          (/\ appts'[i].status = "confirmed"
           /\ \/ appts'[i].appointment_date # appts[i].appointment_date
              \/ appts'[i].appointment_time # appts[i].appointment_time)
          => ~\E j \in DOMAIN appts' :
                 /\ j # i
                 /\ appts'[j].status = "confirmed"
                 /\ appts'[j].appointment_date = appts'[i].appointment_date
                 /\ appts'[j].appointment_time = appts'[i].appointment_time]_vars

\* C3: a create whose pre-check finds the slot held stops there without a row; a
\* create whose pre-check passed and whose slot a concurrent create has taken by the
\* time of its INSERT inserts no row and returns SLOT_JUST_BOOKED.
C3_RaceRejectedAtInsert ==
    [][\A p \in Procs :
          /\ (/\ pc[p] = "dispatch"
              /\ pc'[p] = "create_cal")
             => ~SlotHeld(frame'[p].date, frame'[p].time)
          /\ (/\ pc[p] = "dispatch"
              /\ Returns(p)
              /\ result'[p].success = FALSE
              /\ result'[p].error = "SLOT_ALREADY_BOOKED")
             => appts' = appts
          /\ (/\ pc[p] = "create_insert"
              /\ Steps(p)
              /\ SlotHeld(frame[p].date, frame[p].time))
             => /\ appts' = appts
                /\ result'[p].success = FALSE
                /\ result'[p].error = "SLOT_JUST_BOOKED"]_vars

\* the appointment id is one the customer with this phone cannot act on: it is absent,
\* belongs to another phone, or is cancelled
Inaccessible(id, phone) ==
    \/ id \notin DOMAIN appts
    \/ appts[id].customer_phone # phone
    \/ appts[id].status # "confirmed"

\* C4: modify_appointment and cancel_appointment called with an id that belongs to
\* another phone, is cancelled or does not exist return the one APPOINTMENT_NOT_FOUND
\* result, which carries the id asked for and nothing of any row, and leave the
\* appointments and the calendar as they were.
C4_NotFoundIndistinguishable ==
    [][\A p \in Procs :
          (/\ pc[p] = "dispatch"
           /\ Steps(p)
           /\ frame'[p].fn \in { "cancel_appointment", "modify_appointment" }
           /\ frame'[p].id \in IdInputs
           /\ Inaccessible(frame'[p].id, Caller(p)))
          => /\ Returns(p)
             /\ result'[p] = [success |-> FALSE, error |-> "APPOINTMENT_NOT_FOUND",
                              appointment_id |-> frame'[p].id]
             /\ appts' = appts
             /\ calendar' = calendar]_vars

\* C4 witness: a cancel or modify of another customer's confirmed appointment has
\* returned APPOINTMENT_NOT_FOUND
C4_OtherPhoneNotFound ==
    \E p \in Procs :
        /\ frame[p].fn \in { "cancel_appointment", "modify_appointment" }
        /\ Failed(p)
        /\ result[p].error = "APPOINTMENT_NOT_FOUND"
        /\ frame[p].id \in DOMAIN appts
        /\ appts[frame[p].id].status = "confirmed"
        /\ turn[p].phone # <<>>
        /\ appts[frame[p].id].customer_phone # Caller(p)

\* C5: the booking functions reached through execute_function work with the phone of
\* the transport layer whatever customer_phone the model supplies: the call in flight
\* carries it, every row a call writes is owned by it, every appointment listed is
\* owned by it, and a cancel or modify aimed at another phone's row gets nowhere.
C5_TransportPhoneOnly ==
    [][\A p \in Procs :
          /\ (/\ pc[p] = "dispatch"
              /\ Steps(p)
              /\ pc'[p] \notin { "dispatch", "model" })
             => frame'[p].phone = Caller(p)
          /\ (/\ pc[p] = "dispatch"
              /\ Steps(p)
              /\ frame'[p].fn = "get_customer_appointments"
              /\ result'[p].success)
             => \A k \in DOMAIN result'[p].appointments :
                    appts[result'[p].appointments[k].appointment_id].customer_phone
                        = Caller(p)
          /\ (/\ pc[p] = "dispatch"
              /\ Steps(p)
              /\ frame'[p].fn \in { "cancel_appointment", "modify_appointment" }
              /\ frame'[p].id \in DOMAIN appts
              /\ appts[frame'[p].id].customer_phone # Caller(p))
             => /\ Returns(p)
                /\ result'[p].success = FALSE
          /\ (/\ pc[p] \in { "create_insert", "cancel_update", "modify_update" }
              /\ Steps(p))
             => /\ \A i \in DOMAIN appts :
                       appts'[i] # appts[i] => appts[i].customer_phone = Caller(p)
                /\ \A i \in DOMAIN appts' \ DOMAIN appts :
                       appts'[i].customer_phone = Caller(p)]_vars

\* C5 witness: a turn has listed its appointments and got one back while another
\* customer's appointment is stored too
C5_ListedOwnAmongOthers ==
    \E p \in Procs :
        /\ frame[p].fn = "get_customer_appointments"
        /\ Succeeded(p)
        /\ result[p].count > 0
        /\ \E i \in DOMAIN appts :
               /\ appts[i].status = "confirmed"
               /\ appts[i].customer_phone # Caller(p)

\* C6: a turn makes at most four model calls and dispatches at most three rounds of
\* tool calls; tools are dispatched only after one of the first three model calls;
\* the fourth model call is made without tools and ends the turn with a text reply.
C6_BoundedToolLoop ==
    \A p \in Procs :
        /\ turn[p].modelCalls <= 4
        /\ turn[p].rounds <= 3
        /\ turn[p].rounds <= turn[p].modelCalls
        /\ pc[p] \notin { "idle", "stopped", "model", "send" } => turn[p].modelCalls <= 3
        /\ turn[p].modelCalls = 4
           => /\ ~turn[p].tools
              /\ pc[p] = "send"
              /\ reply[p] # ""

\* C6 witness: three rounds of tool calls were dispatched and the fourth model call
\* has produced the reply
C6_FourthCallReplied ==
    \E p \in Procs :
        /\ turn[p].modelCalls = 4
        /\ turn[p].rounds = 3
        /\ Len(turn[p].msgs) = 3
        /\ pc[p] = "send"
        /\ reply[p] # ""

\* C7: a cancel_appointment on an id that is already cancelled returns the
\* APPOINTMENT_NOT_FOUND result value and changes no row and no calendar event.
C7_CancelIdempotent ==
    [][\A p \in Procs :
          (/\ pc[p] = "dispatch"
           /\ Steps(p)
           /\ frame'[p].fn = "cancel_appointment"
           /\ frame'[p].id \in DOMAIN appts
           /\ appts[frame'[p].id].status = "cancelled")
          => /\ Returns(p)
             /\ result'[p].success = FALSE
             /\ result'[p].error = "APPOINTMENT_NOT_FOUND"
             /\ appts' = appts
             /\ calendar' = calendar]_vars

\* C7 witness: the customer who owns a cancelled appointment has cancelled it again
\* and got APPOINTMENT_NOT_FOUND
C7_CancelledTwice ==
    \E p \in Procs :
        /\ frame[p].fn = "cancel_appointment"
        /\ Failed(p)
        /\ result[p].error = "APPOINTMENT_NOT_FOUND"
        /\ frame[p].id \in DOMAIN appts
        /\ appts[frame[p].id].status = "cancelled"
        /\ turn[p].phone # <<>>
        /\ appts[frame[p].id].customer_phone = Caller(p)

\* C8: a modify_appointment call whose slot check finds the new slot held by a
\* different confirmed appointment returns success=false with the conflict code
\* SLOT_ALREADY_BOOKED and changes no row; every modify_appointment call that returns
\* success=false has changed no row.
C8_SlotCheckRejectsHeldSlot ==
    [][\A p \in Procs :
          /\ (/\ pc[p] = "modify_check"
              /\ Steps(p)
              /\ \E j \in DOMAIN appts :
                     /\ j # frame[p].id
                     /\ appts[j].status = "confirmed"
                     /\ appts[j].appointment_date = frame[p].date
                     /\ appts[j].appointment_time = frame[p].time)
             => /\ Returns(p)
                /\ result'[p].success = FALSE
                /\ result'[p].error = "SLOT_ALREADY_BOOKED"
                /\ appts' = appts
          /\ (/\ Returns(p)
              /\ frame'[p].fn = "modify_appointment"
              /\ result'[p].success = FALSE)
             => /\ appts' = appts
                /\ ~frame[p].committed]_vars

\* C8 witness: a modify onto a slot another confirmed appointment holds has returned
\* SLOT_ALREADY_BOOKED
C8_ModifyRejectedOnHeldSlot ==
    \E p \in Procs :
        /\ frame[p].fn = "modify_appointment"
        /\ Failed(p)
        /\ result[p].error = "SLOT_ALREADY_BOOKED"
        /\ frame[p].id \in DOMAIN appts
        /\ \E j \in DOMAIN appts :
               /\ j # frame[p].id
               /\ appts[j].status = "confirmed"
               /\ appts[j].appointment_date = result[p].date
               /\ appts[j].appointment_time = result[p].time

\* C9: a row's status is confirmed or cancelled, a new row is confirmed, and no step
\* takes a cancelled row back to confirmed.
C9_CancelledIsTerminal ==
    [][/\ \A i \in DOMAIN appts :
              /\ i \in DOMAIN appts'
              /\ appts[i].status = "cancelled" => appts'[i].status = "cancelled"
              /\ appts'[i].status \in { "confirmed", "cancelled" }
       /\ \A i \in DOMAIN appts' \ DOMAIN appts : appts'[i].status = "confirmed"]_vars

\* C9 witness: the owner of a cancelled appointment has tried to modify it, was told
\* APPOINTMENT_NOT_FOUND, and the row is still cancelled
C9_CancelledStaysCancelled ==
    \E p \in Procs :
        /\ frame[p].fn = "modify_appointment"
        /\ Failed(p)
        /\ result[p].error = "APPOINTMENT_NOT_FOUND"
        /\ frame[p].id \in DOMAIN appts
        /\ appts[frame[p].id].status = "cancelled"
        /\ turn[p].phone # <<>>
        /\ appts[frame[p].id].customer_phone = Caller(p)

\* C10: a calendar call made for a create, modify or cancel is issued only once the
\* repository mutation that triggers it has been committed.
C10_CalendarAfterCommit ==
    \A p \in Procs : frame[p].calIssued => frame[p].committed


\* the locals of a call apart from what the calendar call leaves in them
WithoutCalendar(f) == [f EXCEPT !.geid = 0, !.calIssued = FALSE]

\* C11: the outcome of the calendar call never fails or rolls back the repository
\* operation: a calendar step changes no row and leads to the same next statement
\* with the same locals whether it succeeds or not; the INSERT, the cancelling UPDATE
\* and the return of a modify then succeed, and the calendar outcome shows only in
\* the stored event reference and the calendar_synced / calendar_updated flag.
C11_CalendarNeverFailsRepository ==
    [][\A p \in Procs :
          /\ (/\ pc[p] \in { "create_cal", "cancel_cal" }
              /\ Steps(p))
             => /\ appts' = appts
                /\ pc'[p] = IF pc[p] = "create_cal" THEN "create_insert" ELSE "cancel_update"
                /\ WithoutCalendar(frame'[p]) = WithoutCalendar(frame[p])
          /\ (/\ pc[p] = "create_insert"
              /\ Steps(p))
             => /\ Len(appts') = Len(appts) + 1
                /\ SubSeq(appts', 1, Len(appts)) = appts
                /\ appts'[Len(appts')].status = "confirmed"
                /\ appts'[Len(appts')].customer_phone = frame[p].phone
                /\ appts'[Len(appts')].customer_name = frame[p].name
                /\ appts'[Len(appts')].service_type = frame[p].service_type
                /\ appts'[Len(appts')].appointment_date = frame[p].date
                /\ appts'[Len(appts')].appointment_time = frame[p].time
                /\ appts'[Len(appts')].google_event_id = frame[p].geid
                /\ Returns(p)
                /\ result'[p].success
                /\ result'[p].calendar_synced = (frame[p].geid # 0)
          /\ (/\ pc[p] = "cancel_update"
              /\ Steps(p))
             => /\ appts'[frame[p].id].status = "cancelled"
                /\ Returns(p)
                /\ result'[p].success
                /\ result'[p].calendar_updated = (frame[p].geid # 0)
          /\ (/\ pc[p] = "modify_cal"
              /\ Steps(p))
             => /\ appts' = appts
                /\ Returns(p)
                /\ result'[p].success
                /\ result'[p].new_date = frame[p].date
                /\ result'[p].new_time = frame[p].time
                /\ result'[p].calendar_updated = (frame[p].geid # 0)]_vars

\* C11 witness: a create whose calendar call failed has returned success and its row
\* is stored as confirmed, without an event reference
C11_CreatedWithoutCalendar ==
    \E p \in Procs :
        /\ frame[p].fn = "create_appointment"
        /\ Succeeded(p)
        /\ ~result[p].calendar_synced
        /\ frame[p].id \in DOMAIN appts
        /\ appts[frame[p].id].status = "confirmed"
        /\ appts[frame[p].id].google_event_id = 0


\* the two entries a turn with reply text leaves in the history
TurnEntries(text) ==
    << [role |-> "user", content |-> "message"],
       [role |-> "assistant", content |-> text] >>

\* C12: when a model call raises, get_ai_response returns the apology and the
\* history of the phone still receives the turn: the user message and the reply.
C12_FallbackUpdatesHistory ==
    [][\A p \in Procs :
          (/\ pc[p] = "model"
           /\ pc'[p] = "send"
           /\ reply'[p] = FALLBACK_REPLY)
          => history'[p][turn[p].phone]
                 = history[p][turn[p].phone] \o TurnEntries(FALLBACK_REPLY)]_vars

\* C13: a turn that completes normally appends to the history of its phone the user
\* message and then the final reply, and nothing else; no step before the end of a
\* turn writes to the history, and the history of every other phone, on this and on
\* every other replica, is unchanged.
C13_HistoryGetsTheTurnOnly ==
    [][\A p \in Procs :
          /\ (/\ pc[p] = "model"
              /\ pc'[p] = "send"
              /\ reply'[p] # FALLBACK_REPLY)
             => /\ history'[p][turn[p].phone]
                       = history[p][turn[p].phone] \o TurnEntries(reply'[p])
                /\ \A ph \in PhoneInputs \ { turn[p].phone } :
                       history'[p][ph] = history[p][ph]
                /\ \A q \in Procs \ { p } : history'[q] = history[q]
          /\ (/\ Steps(p)
              /\ pc'[p] # "send")
             => history' = history]_vars

\* C13 witness: a turn that dispatched a tool call has ended with the model's reply
\* and the history of its phone holds the user message and that reply
C13_TurnWithToolSaved ==
    \E p \in Procs :
        /\ pc[p] = "send"
        /\ turn[p].rounds >= 1
        /\ Len(turn[p].msgs) >= 1
        /\ reply[p] # FALLBACK_REPLY
        /\ history[p][turn[p].phone] = TurnEntries(reply[p])


\* C14: the history kept for a customer is a rolling window: however many turns the
\* customer has had, the stored history never holds more than the window's entries.
C14_HistoryBounded ==
    \A p \in Procs : \A ph \in PhoneInputs : Len(history[p][ph]) <= HistoryWindow


\* the tool_call_ids of the last n tool messages of the turn of replica p
LastToolIds(p, n) ==
    [i \in 1..n |-> turn[p].msgs[Len(turn[p].msgs) - n + i].tool_call_id]

\* C15: the tool calls of a round are dispatched one at a time in the order emitted
\* and each exactly once: the tool messages appended in the round carry the ids of
\* the calls dispatched so far, in the order the model emitted them, and the next
\* model call is made only when every call of the round has its tool message.
C15_RoundDispatchedInOrder ==
    \A p \in Procs :
        LET calls == turn[p].calls
            done == Len(calls) - turn[p].pending
        IN  /\ turn[p].pending <= Len(calls)
            /\ done <= Len(turn[p].msgs)
            /\ LastToolIds(p, done) = SubSeq(calls, 1, done)
            /\ \A i, j \in 1..Len(turn[p].msgs) :
                   i # j => turn[p].msgs[i].tool_call_id # turn[p].msgs[j].tool_call_id
            /\ pc[p] \in { "model", "send", "idle", "stopped" } => turn[p].pending = 0
            /\ pc[p] \notin { "model", "send", "idle", "stopped" } => turn[p].pending >= 1

\* C15 witness: a round of two tool calls is complete and the next model call is due
C15_TwoCallsAnswered ==
    \E p \in Procs :
        /\ pc[p] = "model"
        /\ Len(turn[p].calls) = 2
        /\ turn[p].pending = 0
        /\ LastToolIds(p, 2) = turn[p].calls


\* replica p receives a chat-completion response that carries no tool call
TextResponse(p) ==
    /\ pc[p] = "model"
    /\ turn'[p].modelCalls = turn[p].modelCalls + 1
    /\ turn'[p].calls = <<>>
    /\ reply'[p] # FALLBACK_REPLY

\* C16: in whichever round the model answers without a tool call, that text becomes
\* the reply of the turn, and the turn then ends: the only step left to the replica
\* is sending the reply, with no further model call and no tool dispatched
C16_TextResponseEndsTurn ==
    [][\A p \in Procs :
          /\ TextResponse(p) =>
                /\ pc'[p] = "send"
                /\ reply'[p] = "reply"
                /\ turn'[p].pending = 0
                /\ turn'[p].msgs = turn[p].msgs
                /\ turn'[p].rounds = turn[p].rounds
                /\ frame'[p] = NoFrame
          /\ (pc[p] = "send" /\ Steps(p)) =>
                /\ pc'[p] = "idle"
                /\ turn'[p] = NoTurn
                /\ appts' = appts
                /\ calendar' = calendar]_vars

\* the third response of a turn, after two rounds of tools, was plain text
C16_TextAfterTwoRounds ==
    \E p \in Procs :
        /\ pc[p] = "send"
        /\ reply[p] = "reply"
        /\ turn[p].modelCalls = 3
        /\ turn[p].rounds = 2


\* the step is the return of execute_function called on replica p with a name no
\* branch of it matches
UnknownReturns(p) == Returns(p) /\ frame'[p].fn \in UnknownNames

\* C17 as stated: a call of execute_function with a tool name outside the operation
\* set returns success = false with error UNKNOWN_FUNCTION, leaves the appointment
\* store unchanged and lets the loop go on
C17_UnknownAlwaysUnknownFunction ==
    [][\A p \in Procs :
          UnknownReturns(p) =>
              /\ "success" \in DOMAIN result'[p]
              /\ ~result'[p].success
              /\ result'[p].error = "UNKNOWN_FUNCTION"
              /\ appts' = appts
              /\ pc'[p] \in { "dispatch", "model" }]_vars

\* C17: a call of execute_function with a tool name outside the operation set returns
\* a result with success = false instead of raising, whose error is UNKNOWN_FUNCTION
\* whenever the arguments parse as JSON (and the text of the parse error otherwise);
\* the appointment store and the calendar are left unchanged, the result is appended
\* as a tool message and the loop goes on to the next call of the round or to the next
\* model call
C17_UnknownIsStructuredFailure ==
    [][\A p \in Procs :
          UnknownReturns(p) =>
              /\ "success" \in DOMAIN result'[p]
              /\ ~result'[p].success
              /\ \E arguments \in ArgumentInputs :
                    /\ result'[p] = execute_unknown(frame'[p].fn, arguments)
                    /\ Parses(arguments) =>
                          /\ result'[p].error = "UNKNOWN_FUNCTION"
                          /\ result'[p].function_name = frame'[p].fn
              /\ \A arguments \in ArgumentInputs :
                    Parses(arguments) =>
                        execute_unknown(frame'[p].fn, arguments).error = "UNKNOWN_FUNCTION"
              /\ appts' = appts
              /\ calendar' = calendar
              /\ Len(turn'[p].msgs) = Len(turn[p].msgs) + 1
              /\ pc'[p] = IF turn[p].pending = 1 THEN "model" ELSE "dispatch"]_vars

\* an unknown tool name was answered with UNKNOWN_FUNCTION and the turn is back at
\* the model call
C17_UnknownAnswered ==
    \E p \in Procs :
        /\ pc[p] = "model"
        /\ frame[p].fn \in UnknownNames
        /\ Failed(p)
        /\ result[p].error = "UNKNOWN_FUNCTION"


\* replica p is between the dispatch of a tool call and the return of execute_function
InTool(p) == pc[p] \notin { "idle", "stopped", "model", "send" }

\* the step is the return of execute_function on replica p for a payload that did not
\* parse or lacked a required key
BadArgsReturn(p) ==
    /\ pc[p] = "dispatch"
    /\ Returns(p)
    /\ frame'[p].fn \in ToolNames
    /\ result'[p] = [success |-> FALSE, error |-> EXCEPTION]

ClosedCodes ==
    { "CLOSED_MONDAY", "CLOSED_SUNDAY", "CLOSED_HOLIDAY_CHRISTMAS", "CLOSED_HOLIDAY_NEWYEAR" }

\* C19: create_appointment and modify_appointment both call
\* validate_business_day_and_time on the date and time they are about to write and
\* return before writing when it rejects them: every row of the store, confirmed or
\* not, has a date the validator accepts, and a call that returns a closed-day code
\* has written nothing
C19_RowsOnlyOnOpenDays ==
    /\ \A i \in DOMAIN appts :
          validate_business_day_and_time(appts[i].appointment_date,
                                         appts[i].appointment_time).valid
    /\ \A p \in Procs :
          (Failed(p) /\ result[p].error \in ClosedCodes) =>
              /\ frame[p].fn \in { "create_appointment", "modify_appointment" }
              /\ ~validate_business_day_and_time(result[p].date, result[p].time).valid

\* a confirmed appointment exists, its owner asked to move it to the holiday and the
\* move was refused, another caller asked to book a Monday and was refused
C19_ClosedDaysRefused ==
    \E p, q \in Procs :
        /\ frame[p].fn = "modify_appointment"
        /\ Failed(p)
        /\ result[p].error = "CLOSED_HOLIDAY_NEWYEAR"
        /\ frame[p].id \in DOMAIN appts
        /\ appts[frame[p].id].status = "confirmed"
        /\ frame[q].fn = "create_appointment"
        /\ Failed(q)
        /\ result[q].error = "CLOSED_MONDAY"


\* days from Monday 1 January 2024 to 1 January of y
RECURSIVE DaysBeforeYear(_)
DaysBeforeYear(y) ==
    IF y <= 2024 THEN 0
    ELSE DaysBeforeYear(y - 1) + (IF IsLeap(y - 1) THEN 366 ELSE 365)

RECURSIVE DaysBeforeMonth(_, _)
DaysBeforeMonth(y, m) ==
    IF m = 1 THEN 0 ELSE DaysBeforeMonth(y, m - 1) + DaysInMonth(y, m - 1)

\* the day of the week by counting days from Monday 1 January 2024: 0 is Monday
DayOfWeek(d) == (DaysBeforeYear(d[1]) + DaysBeforeMonth(d[1], d[2]) + d[3] - 1) % 7

\* the configured closed weekdays (Monday, Sunday) and holidays (25 December, 1 January)
ClosedDay(d) ==
    \/ DayOfWeek(d) \in { 0, 6 }
    \/ << d[2], d[3] >> \in { << 12, 25 >>, << 1, 1 >> }

Holiday(d) == << d[2], d[3] >> \in { << 12, 25 >>, << 1, 1 >> }

\* a time argument was given and datetime.strptime(time_str, "%H:%M") would raise on it
MalformedTime(t) == t # << >> /\ ~ValidTime(t)

FormatCodes == { "INVALID_DATE_FORMAT", "INVALID_TIME_FORMAT", "INVALID_DATE_TIME_FORMAT" }

ClosedWeekday(d) == ValidDate(d) /\ DayOfWeek(d) \in { 0, 6 }

C23_CreateThenIdenticalCreateConflicts ==
    [][\A p \in Procs :
          /\ (pc[p] = "dispatch" /\ pc'[p] = "create_cal") =>
                /\ frame'[p].name # ""
                /\ Lower(frame'[p].service_type) \in DOMAIN SALON_SERVICES
                /\ validate_business_day_and_time(frame'[p].date, frame'[p].time).valid
                /\ ~DateTimeLess(frame'[p].date, frame'[p].time, Now)
                /\ ~SlotHeld(frame'[p].date, frame'[p].time)
          /\ (pc[p] = "create_insert" /\ Steps(p)
                /\ ~SlotHeld(frame[p].date, frame[p].time)) =>
                \A f \in { frame[p] } :
                LET again == CreateCheck(f.phone, f.name, f.service_type, f.date, f.time)'
                IN  /\ Len(appts') = Len(appts) + 1
                    /\ SubSeq(appts', 1, Len(appts)) = appts
                    /\ appts'[Len(appts')].status = "confirmed"
                    /\ appts'[Len(appts')].customer_phone = Caller(p)
                    /\ appts'[Len(appts')].appointment_date = f.date
                    /\ appts'[Len(appts')].appointment_time = f.time
                    /\ result'[p].success
                    /\ result'[p].appointment_id = Len(appts')
                    /\ ~again.success
                    /\ ~DateTimeLess(f.date, f.time, Now') =>
                          again.error = "SLOT_ALREADY_BOOKED"
                    /\ SlotCount(f.date, f.time)' = 1
          /\ (pc[p] = "dispatch" /\ Returns(p) /\ frame'[p].fn = "create_appointment"
                /\ result'[p].error = "SLOT_ALREADY_BOOKED") =>
                /\ appts' = appts
                /\ SlotHeld(result'[p].date, result'[p].time)]_vars

\* one round of a turn carried two create_appointment calls for the same slot: the
\* first inserted the only row of the store, the second was refused with
\* SLOT_ALREADY_BOOKED
C23_SecondIdenticalCreateRefused ==
    \E p \in Procs :
        /\ pc[p] = "model"
        /\ Len(turn[p].calls) = 2
        /\ turn[p].rounds = 1
        /\ Len(turn[p].msgs) = 2
        /\ Len(appts) = 1
        /\ appts[1].status = "confirmed"
        /\ appts[1].customer_phone = Caller(p)
        /\ frame[p].fn = "create_appointment"
        /\ Failed(p)
        /\ result[p].error = "SLOT_ALREADY_BOOKED"
        /\ result[p].date = appts[1].appointment_date
        /\ result[p].time = appts[1].appointment_time
        /\ SlotCount(result[p].date, result[p].time) = 1


\* the slot (d, t) lies after the instant nw: a later date, or the same date and a
\* later time
After(d, t, nw) ==
    \/ DateLess(nw.date, d)
    \/ d = nw.date /\ TimeLess(nw.time, t)

\* the slot (d1, t1) is not later than the slot (d2, t2)
NotLater(d1, t1, d2, t2) ==
    \/ DateLess(d1, d2)
    \/ d1 = d2 /\ (TimeLess(t1, t2) \/ t1 = t2)

\* C24: every entry get_customer_appointments returns is a row of the store that is
\* confirmed, belongs to the normalized phone of the caller and lies after now (a
\* later date, or today at a later time), and the entries come in ascending order of
\* (date, time): no past, cancelled or foreign appointment is ever listed
C24_ListsOnlyOwnConfirmedFuture ==
    [][\A p \in Procs :
          (pc[p] = "dispatch" /\ Returns(p)
             /\ frame'[p].fn = "get_customer_appointments" /\ result'[p].success) =>
              LET listed == result'[p].appointments IN
              /\ result'[p].count = Len(listed)
              /\ \A k \in DOMAIN listed :
                    /\ listed[k].appointment_id \in DOMAIN appts
                    /\ LET row == appts[listed[k].appointment_id] IN
                       /\ row.status = "confirmed"
                       /\ listed[k].status = "confirmed"
                       /\ row.customer_phone = Caller(p)
                       /\ After(row.appointment_date, row.appointment_time, Now)
                       /\ listed[k].date = row.appointment_date
                       /\ listed[k].time = format_time_12h(row.appointment_time)
              /\ \A k \in DOMAIN listed : \A l \in DOMAIN listed :
                    k < l =>
                      /\ listed[k].appointment_id # listed[l].appointment_id
                      /\ NotLater(appts[listed[k].appointment_id].appointment_date,
                                  appts[listed[k].appointment_id].appointment_time,
                                  appts[listed[l].appointment_id].appointment_date,
                                  appts[listed[l].appointment_id].appointment_time)
              /\ appts' = appts]_vars

\* the caller has two confirmed appointments, one of them already past, and the
\* listing returned the other one only
C24_PastAppointmentNotListed ==
    \E p \in Procs :
        /\ pc[p] = "model"
        /\ frame[p].fn = "get_customer_appointments"
        /\ Succeeded(p)
        /\ result[p].count = 1
        /\ Len(appts) = 2
        /\ \A i \in DOMAIN appts :
              appts[i].status = "confirmed" /\ appts[i].customer_phone = Caller(p)
        /\ \E i \in DOMAIN appts :
              DateTimeLess(appts[i].appointment_date, appts[i].appointment_time, Now)
        /\ After(appts[result[p].appointments[1].appointment_id].appointment_date,
                 appts[result[p].appointments[1].appointment_id].appointment_time, Now)


\* C25: a modify_appointment that leaves a field out keeps the row's value of it: when
\* the service the call settles on is the row's own, the UPDATE leaves the service
\* code, the duration and the price as they were, and likewise the date and the time;
\* the name, the phone, the status and the calendar event reference of the row are
\* never changed by the UPDATE
C25_OmittedFieldsKept ==
    [][\A p \in Procs :
          (pc[p] = "modify_update" /\ Steps(p) /\ appts' # appts) =>
              LET f == frame[p]
                  old == appts[f.id]
                  new == appts'[f.id]
              IN  /\ new.customer_name = old.customer_name
                  /\ new.customer_phone = old.customer_phone
                  /\ new.status = old.status
                  /\ new.google_event_id = old.google_event_id
                  /\ f.service_type = old.service_type =>
                        /\ new.service_type = old.service_type
                        /\ new.duration_minutes = old.duration_minutes
                        /\ new.price = old.price
                  /\ f.date = old.appointment_date =>
                        new.appointment_date = old.appointment_date
                  /\ f.time = old.appointment_time =>
                        new.appointment_time = old.appointment_time]_vars


\* the digit characters of the string s in their order, collected from the left
RECURSIVE DigitsOf(_)
DigitsOf(s) ==
    IF s = << >> THEN << >>
    ELSE IF Head(s) \in Digits THEN << Head(s) >> \o DigitsOf(Tail(s))
    ELSE DigitsOf(Tail(s))

\* t is s without some leading zeros: s is a run of zeros followed by t
ZerosThen(s, t) ==
    /\ Len(t) <= Len(s)
    /\ t = SubSeq(s, Len(s) - Len(t) + 1, Len(s))
    /\ \A k \in 1..(Len(s) - Len(t)) : s[k] = "0"

C28_NormalizeIdempotent ==
    \A p \in Procs :
        pc[p] = "renormalized" =>
            /\ result[p].normalized = normalize_phone(frame[p].phone)
            /\ result[p].again = result[p].normalized

\* the string "00" was normalized twice and gave "00" both times
C28_ZerosNormalizedTwice ==
    \E p \in Procs :
        /\ pc[p] = "renormalized"
        /\ frame[p].phone = << "0", "0" >>
        /\ result[p].normalized = << "0", "0" >>
        /\ result[p].again = << "0", "0" >>


\* the digits of s from its first digit other than zero on
RECURSIVE Significant(_)
Significant(s) ==
    IF s = << >> THEN << >>
    ELSE IF Head(s) = "0" THEN Significant(Tail(s)) ELSE s

\* the phone strings x and y differ in non-digit characters and leading zeros only
SameCustomer(x, y) == Significant(DigitsOf(x)) = Significant(DigitsOf(y))

\* the rows a customer may see and act on: confirmed, and whatever format created them
ConfirmedRows == { i \in DOMAIN appts : appts[i].status = "confirmed" }

CreateSucceeded(p) ==
    /\ frame[p].fn = "create_appointment"
    /\ frame[p].id # 0
    /\ Succeeded(p)

\* C29: no step removes a row or changes a row's id: the store only grows, the id a
\* successful create_appointment returned keeps naming a row, and the UPDATE of
\* cancel_appointment changes the status of its row and nothing else
C29_RowsNeverDeleted ==
    [][/\ Len(appts') >= Len(appts)
       /\ \A i \in DOMAIN appts : appts'[i].id = i /\ appts[i].id = i
       /\ \A p \in Procs :
             /\ CreateSucceeded(p) =>
                   /\ result[p].appointment_id = frame[p].id
                   /\ result[p].appointment_id \in DOMAIN appts
                   /\ result[p].appointment_id \in DOMAIN appts'
             /\ (pc[p] = "cancel_update" /\ Steps(p)) =>
                   /\ Len(appts') = Len(appts)
                   /\ \A i \in DOMAIN appts :
                         appts'[i] = IF i = frame[p].id
                                     THEN [appts[i] EXCEPT !.status = "cancelled"]
                                     ELSE appts[i]]_vars

\* two appointments were created, the first was cancelled since, and both rows are
\* still in the store under their ids
C29_CancelledRowStillStored ==
    /\ Len(appts) = 2
    /\ appts[1].id = 1
    /\ appts[2].id = 2
    /\ appts[1].status = "cancelled"
    /\ appts[2].status = "confirmed"
    /\ \E p \in Procs :
          /\ frame[p].fn = "cancel_appointment"
          /\ frame[p].id = 1
          /\ Succeeded(p)


\* replica p has loaded the row of a modify_appointment and its arguments passed the
\* validation: the step from the dispatch into the slot check or the UPDATE
ModifyLoaded(p) ==
    /\ pc[p] = "dispatch"
    /\ pc'[p] \in { "modify_check", "modify_update" }

\* the change details report the field with its old and new value, or do not report it
Reported(change, differs, old, new) ==
    IF differs THEN change = << old, new >> ELSE change = << >>

\* the date and time parts of C30, and what the result and the UPDATE carry
ChangesCarried(p) ==
    /\ ModifyLoaded(p) =>
          LET row == appts[frame'[p].id]
              f == frame'[p]
          IN  /\ Reported(f.changes.date, f.date # row.appointment_date,
                          row.appointment_date, f.date)
              /\ Reported(f.changes.time, f.time # row.appointment_time,
                          row.appointment_time, f.time)
    /\ (pc[p] = "modify_update" /\ Steps(p) /\ appts' # appts) =>
          /\ appts'[frame[p].id].appointment_date = frame[p].date
          /\ appts'[frame[p].id].appointment_time = frame[p].time
          /\ appts'[frame[p].id].service_type = frame[p].service_type
    /\ (pc[p] \in { "modify_update", "modify_cal" } /\ Returns(p) /\ result'[p].success) =>
          /\ result'[p].changes = frame[p].changes
          /\ result'[p].new_date = frame[p].date
          /\ result'[p].new_time = frame[p].time

MockCalled(fn) == pc[1] = "mock" /\ frame[1].fn = fn

\* C31: in the mock calendar, when book_appointment is called for a slot that
\* check_availability reports available, check_availability reports the slot taken
\* afterwards; when cancel_appointment succeeds for a slot the calendar offers,
\* check_availability reports it available again; and every answer of
\* check_availability is that of the state it was asked in
C31_BookTakesCancelRestores ==
    [][\A p \in Procs :
          \A f \in { frame'[p] } :
             /\ (pc[p] = "mock" /\ f.fn = "book_appointment"
                   /\ mock_check_availability(calendar, f.date, f.time)) =>
                   /\ result'[p].success
                   /\ ~mock_check_availability(calendar', f.date, f.time)
             /\ (pc[p] = "mock" /\ f.fn = "cancel_appointment" /\ result'[p].success) =>
                   /\ f.time \in MockBooked(calendar, f.date)
                   /\ (\E i \in DOMAIN MockOffered(f.date) : MockOffered(f.date)[i] = f.time)
                         => mock_check_availability(calendar', f.date, f.time)
             /\ (pc[p] = "mock" /\ f.fn = "check_availability") =>
                   /\ calendar' = calendar
                   /\ result'[p].available =
                         (/\ \E i \in DOMAIN MockOffered(f.date) :
                                MockOffered(f.date)[i] = f.time
                          /\ \A a \in calendar : ~(a.date = f.date /\ a.time = f.time))]_vars

\* cancel_appointment has just succeeded for the 09:00 slot of 2025-11-10, which was
\* therefore booked, and the slot is available
C31_SlotFreeAfterCancel ==
    /\ MockCalled("cancel_appointment")
    /\ frame[1].date = <<2025, 11, 10>>
    /\ frame[1].time = <<9, 0>>
    /\ result[1].success
    /\ mock_check_availability(calendar, <<2025, 11, 10>>, <<9, 0>>)


\* the call that returned last on replica p, in a turn that has dispatched tool calls,
\* wrote to the appointment store: a create, modify or cancel that reported success
LastCallWrote(p) ==
    /\ turn[p].modelCalls >= 1
    /\ frame[p].fn \in { "create_appointment", "modify_appointment",
                         "cancel_appointment" }
    /\ Succeeded(p)

\* C32: a turn that ends with the technical-issue reply has created, modified or
\* cancelled no appointment: when a model call raises, no tool call of the turn has
\* written to the store
C32_FallbackTurnWroteNothing ==
    [][\A p \in Procs :
          (/\ pc[p] = "model"
           /\ pc'[p] = "send"
           /\ reply'[p] = FALLBACK_REPLY)
          => ~LastCallWrote(p)]_vars


\* C33: once a row is cancelled, its date, time, service code, duration and price
\* never change again, whatever runs concurrently with the cancel
C33_CancelledRowFrozen ==
    [][\A i \in DOMAIN appts :
          appts[i].status = "cancelled" =>
             /\ appts'[i].appointment_date = appts[i].appointment_date
             /\ appts'[i].appointment_time = appts[i].appointment_time
             /\ appts'[i].service_type = appts[i].service_type
             /\ appts'[i].duration_minutes = appts[i].duration_minutes
             /\ appts'[i].price = appts[i].price]_vars


\* C34: every row's service code is a key of the catalog, and the row's duration and
\* price are the catalog's for that code
C34_RowsCarryCatalogServices ==
    \A i \in DOMAIN appts :
        /\ appts[i].service_type \in DOMAIN SALON_SERVICES
        /\ appts[i].duration_minutes = SALON_SERVICES[appts[i].service_type].duration
        /\ appts[i].price = SALON_SERVICES[appts[i].service_type].price


\* the step is the UPDATE of a cancel_appointment on replica p, which returns success
CancelCommits(p) ==
    /\ pc[p] = "cancel_update"
    /\ Steps(p)
    /\ appts'[frame[p].id].status = "cancelled"

\* row has a future slot on an open day and no confirmed row holds that slot
SlotFreed(row) ==
    /\ ~DateTimeLess(row.appointment_date, row.appointment_time, Now)
    /\ validate_business_day_and_time(row.appointment_date, row.appointment_time).valid
    /\ ~SlotHeld(row.appointment_date, row.appointment_time)

\* create_appointment on the slot of row passes every check, for every customer, a
\* non-blank name and every service of the catalog in lower or upper case
CreateOntoPasses(row) ==
    \A phone \in PhoneInputs, service_type \in { "piega", "PIEGA", "taglio_donna" } :
        CreateCheck(normalize_phone(phone), "Marco", service_type,
                    row.appointment_date, row.appointment_time).success

\* modify_appointment of every confirmed row of another customer onto the slot of row
\* passes its validation and its slot check
ModifyOntoPasses(row) ==
    \A j \in DOMAIN appts :
        (appts[j].status = "confirmed" /\ appts[j].customer_phone # row.customer_phone) =>
           /\ ModifyCheckArgs(appts[j], row.appointment_date, row.appointment_time,
                              "").success
           /\ SlotCountExcluding(row.appointment_date, row.appointment_time, j) = 0

\* C35: when cancel_appointment commits the cancellation of the one confirmed row that
\* holds a future slot on an open day, then in the state it leaves a create_appointment
\* by any customer for that date and time with a valid name and service passes every
\* check up to its INSERT, which cannot fail, and so does a modify_appointment of
\* another customer's confirmed row onto that slot
C35_CancelFreesTheSlot ==
    [][\A p \in Procs :
          CancelCommits(p) =>
             \A row \in { appts[frame[p].id] } :
                SlotFreed(row)' => (CreateOntoPasses(row) /\ ModifyOntoPasses(row))']_vars

\* a cancel_appointment has just cancelled a row whose slot is free, in the future and
\* on an open day, while another customer holds a confirmed row on another slot
C35_FreedSlotAndAnotherCustomer ==
    \E p \in Procs :
        /\ frame[p].fn = "cancel_appointment"
        /\ pc[p] = "model"
        /\ Succeeded(p)
        /\ "cancelled_appointment_id" \in DOMAIN result[p]
        /\ appts[frame[p].id].status = "cancelled"
        /\ SlotFreed(appts[frame[p].id])
        /\ CreateOntoPasses(appts[frame[p].id])
        /\ \E j \in DOMAIN appts :
              /\ appts[j].status = "confirmed"
              /\ appts[j].customer_phone # appts[frame[p].id].customer_phone


\* C36: when check_availability(date, time) returns available = true, a
\* create_appointment for that date and time with a non-empty name and a catalog
\* service, called in the state the check was answered in, passes every check of
\* create_appointment
C36_AvailableThenCreateSucceeds ==
    [][\A p \in Procs :
          (/\ pc[p] = "dispatch"
           /\ Returns(p)
           /\ frame'[p].fn = "check_availability"
           /\ result'[p].success
           /\ result'[p].available)
          => \A r \in { result'[p] } :
                \A phone \in PhoneInputs :
                   CreateCheck(normalize_phone(phone), "Marco", "piega",
                               r.date, r.time)'.success]_vars


\* the step is the return of a get_available_slots that read its date argument
GetSlotsReturns(p) ==
    /\ pc[p] = "dispatch"
    /\ Returns(p)
    /\ frame'[p].fn = "get_available_slots"
    /\ result'[p] # [success |-> FALSE, error |-> EXCEPTION]

\* the half-hour slots of an open date from 09:00 to the closing hour, 17:00 on a
\* Saturday and 18:00 otherwise, that no confirmed appointment holds
OpenSlots(date) ==
    { t \in { << h, m >> : h \in 9..((IF DayOfWeek(date) = 5 THEN 17 ELSE 18) - 1),
                           m \in { 0, 30 } } : ~SlotHeld(date, t) }

\* the sequence lists exactly the times of the set, each once, in ascending order
ListsExactly(slots, times) ==
    /\ { slots[k] : k \in DOMAIN slots } = times
    /\ \A k \in 1..(Len(slots) - 1) : TimeLess(slots[k], slots[k + 1])

\* the answer r of get_available_slots(date) on an open date after today
OpenAnswer(date, r) ==
    /\ r.success
    /\ "closed" \notin DOMAIN r
    /\ ListsExactly(r.available_slots, OpenSlots(date))
    /\ r.count = Cardinality(OpenSlots(date))

\* the answer r of get_available_slots(date) on a closed day or holiday
ClosedAnswer(r) ==
    /\ r.success
    /\ "closed" \in DOMAIN r
    /\ r.closed
    /\ r.available_slots = << >>

\* every slot the answer lists is reported available by check_availability
ListedAreAvailable(date, r) ==
    (r.success /\ "available_slots" \in DOMAIN r) =>
       \A k \in DOMAIN r.available_slots :
          check_availability(date, r.available_slots[k]).available

\* C37 as stated: get_available_slots returns, for an open date after today, exactly
\* the free half-hour slots from 09:00 to the closing hour; for every closed day or
\* holiday, success with an empty list and closed = true; and every slot it returns
\* is reported available by check_availability in the same state
C37_SlotsOfOpenAndClosedDays ==
    [][\A p \in Procs :
          GetSlotsReturns(p) =>
             \A date \in SlotDateInputs :
                result'[p] = get_available_slots(date) =>
                   /\ (ValidDate(date) /\ DateLess(Now.date, date) /\ ~ClosedDay(date))
                         => OpenAnswer(date, result'[p])
                   /\ (ValidDate(date) /\ ClosedDay(date)) => ClosedAnswer(result'[p])
                   /\ ListedAreAvailable(date, result'[p])]_vars

\* C37: get_available_slots returns, for an open date after today, exactly the free
\* half-hour slots from 09:00 to the closing hour (17:00 on a Saturday, 18:00
\* otherwise); for a closed day or holiday that is not before today, success with an
\* empty list and closed = true; for a date before today, closed or open, the failure
\* PAST_DATE_NOT_ALLOWED; and every slot it returns is reported available by
\* check_availability in the same state
C37_SlotsOfOpenAndClosedDaysFromToday ==
    [][\A p \in Procs :
          GetSlotsReturns(p) =>
             \A date \in SlotDateInputs :
                result'[p] = get_available_slots(date) =>
                   /\ (ValidDate(date) /\ DateLess(Now.date, date) /\ ~ClosedDay(date))
                         => OpenAnswer(date, result'[p])
                   /\ (ValidDate(date) /\ ~DateLess(date, Now.date) /\ ClosedDay(date))
                         => ClosedAnswer(result'[p])
                   /\ (ValidDate(date) /\ DateLess(date, Now.date))
                         => result'[p] = [success |-> FALSE, error |-> "PAST_DATE_NOT_ALLOWED"]
                   /\ ListedAreAvailable(date, result'[p])]_vars

\* replica p holds the answer of get_available_slots for date, listing n slots
SlotsAnswered(p, date, n) ==
    /\ frame[p].fn = "get_available_slots"
    /\ pc[p] = "model"
    /\ Succeeded(p)
    /\ "available_slots" \in DOMAIN result[p]
    /\ result[p].date = date
    /\ Len(result[p].available_slots) = n

\* one replica holds the answer for Saturday 2026-01-03, the 16 slots from 09:00 to
\* 16:30, and another the answer for Tuesday 2025-12-30, on which a confirmed
\* appointment holds 10:00: 17 slots, 10:00 not among them
C37_SaturdayAndBookedTuesdayListed ==
    \E p, q \in Procs :
        /\ SlotsAnswered(p, <<2026, 1, 3>>, 16)
        /\ result[p].available_slots[16] = <<16, 30>>
        /\ SlotsAnswered(q, <<2025, 12, 30>>, 17)
        /\ SlotHeld(<<2025, 12, 30>>, <<10, 0>>)
        /\ \A k \in 1..17 : result[q].available_slots[k] # <<10, 0>>


ReadOnlyTools == { "check_availability", "get_available_slots", "get_customer_appointments" }

\* C38: a call of check_availability, get_available_slots or get_customer_appointments
\* leaves the appointment store, the external calendar and the conversation history as
\* they were, whatever its arguments are and whether it returns a result or an error
C38_ReadOnlyToolsWriteNothing ==
    [][\A p \in Procs :
          (pc[p] = "dispatch" /\ Returns(p) /\ frame'[p].fn \in ReadOnlyTools) =>
             /\ appts' = appts
             /\ calendar' = calendar
             /\ calSeq' = calSeq
             /\ history' = history]_vars

\* check_availability has returned an error on a store that holds a confirmed
\* appointment mirrored in the calendar
C38_CheckFailedOnBookedStore ==
    \E p \in Procs :
        /\ frame[p].fn = "check_availability"
        /\ pc[p] = "model"
        /\ Failed(p)
        /\ \E i \in DOMAIN appts :
              /\ appts[i].status = "confirmed"
              /\ \E e \in calendar : e.id = appts[i].google_event_id


\* the list holds the newest messages added to its context, oldest first: their
\* contents are consecutive and end with the latest one added
NewestInOrder(messages) ==
    \A k \in DOMAIN messages :
        messages[k].content = Added(messages) - (Len(messages) - k)

\* C39: under any sequence of add_message calls a context's list never holds more
\* than 50 messages and always holds the most recently added ones in insertion order;
\* a call appends its message, and when that makes 51 the list is cut to the newest 40
C39_AtMostFiftyNewest ==
    [][\A session_id \in PhoneInputs :
          \A old \in { history[1][session_id] } :
             \A new \in { history'[1][session_id] } :
                new # old =>
                   /\ Len(new) <= 50
                   /\ NewestInOrder(new)
                   /\ Added(new) = Added(old) + 1
                   /\ new[Len(new)].sequence = Len(old)
                   /\ Len(new) = IF Len(old) = 50 THEN 40 ELSE Len(old) + 1
                   /\ \A k \in 1..(Len(new) - 1) :
                         new[k] = old[Len(old) - (Len(new) - 1) + k]]_vars

\* the 51st message has just been added to a context: the list holds the 40 messages
\* from the 12th to the 51st
C39_CutAfterFiftyFirst ==
    \E session_id \in PhoneInputs :
        /\ pc[1] = "memory"
        /\ frame[1].phone = session_id
        /\ Len(history[1][session_id]) = 40
        /\ history[1][session_id][1].content = 12
        /\ history[1][session_id][40].content = 51


\* the request ended in a 5xx status, a connection error or another exception
WorthRetrying(outcome) ==
    \/ outcome.kind = "HTTPError" /\ outcome.code >= 500
    \/ outcome.kind \in { "URLError", "Exception" }

\* C40: _forward_with_retry makes at most MAX_RETRIES requests for a webhook, numbered
\* from 0; it makes a further request only after a 5xx status, a connection error or
\* another exception, never after a response or a status below 500; after such a
\* failure it goes on as long as attempts remain; it returns success exactly when its
\* last request got a response, and failure only after a status below 500 or after
\* MAX_RETRIES requests
C40_RetriesOnlyWhatIsWorthRetrying ==
    \A p \in Procs :
        \A sent \in { frame[p].sent } :
           /\ Len(sent) <= MAX_RETRIES
           /\ \A k \in DOMAIN sent : sent[k].attempt = k - 1
           /\ \A k \in 1..(Len(sent) - 1) : WorthRetrying(sent[k].outcome)
           /\ (sent # << >> /\ sent[Len(sent)].outcome.kind = "response")
                 => (pc[p] = "forwarded" /\ result[p][1])
           /\ (/\ sent # << >>
               /\ WorthRetrying(sent[Len(sent)].outcome)
               /\ Len(sent) < MAX_RETRIES)
                 => pc[p] \in { "backoff", "forward" }
           /\ pc[p] = "forwarded" =>
                 IF result[p][1]
                 THEN sent # << >> /\ sent[Len(sent)].outcome.kind = "response"
                 ELSE \/ Len(sent) = MAX_RETRIES /\ WorthRetrying(sent[Len(sent)].outcome)
                      \/ /\ sent # << >>
                         /\ sent[Len(sent)].outcome.kind = "HTTPError"
                         /\ sent[Len(sent)].outcome.code < 500

\* one webhook was forwarded at the third request, after a 503 and a connection error,
\* and the other was given up at its first request, on a 404
C40_ThirdRequestSucceedsAndClientErrorGivesUp ==
    \E p, q \in Procs :
        /\ pc[p] = "forwarded"
        /\ result[p][1]
        /\ Len(frame[p].sent) = 3
        /\ frame[p].sent[1].outcome = [kind |-> "HTTPError", code |-> 503]
        /\ frame[p].sent[2].outcome.kind = "URLError"
        /\ pc[q] = "forwarded"
        /\ ~result[q][1]
        /\ Len(frame[q].sent) = 1
        /\ result[q][2].error = << "HTTP", 404 >>

====
